---- MODULE Spec2Model ----
(***************************************************************************)
(* Admission-and-agreement core of the ethereum-p2p node: the Nonce rule   *)
(* of the validation-rule engine, the two-tier transaction pool with its   *)
(* snapshot persistence, block validation (BlockValidator and             *)
(* ConsensusManager), the canonical chain state with fork detection, and   *)
(* the finality tracker.                                                   *)
(*                                                                         *)
(* Each component has its own specification (SpecNonce, SpecPool,          *)
(* SpecValidator, SpecChain, SpecFinality) over the shared variables; a    *)
(* specification leaves the variables of the other components unchanged.   *)
(***************************************************************************)
EXTENDS Integers, FiniteSets, Sequences, TLC

VARIABLES
    \* ---- NonceValidator (src/verification/validation_rules.ts) ----
    nonceCache,        \* Map<address, Set<number>>: reserved nonces per account
    accountNonce,      \* stateManager.getAccountState(a).nonce
    nonceLast,         \* the last NonceValidator.validate call and its result
    nonceReads,        \* validate calls suspended at `await getAccountState`
    \* ---- TransactionValidator (src/unnamed/part_010) ----
    engineLast,        \* the last validateTransaction call and its result
    \* ---- TransactionPool (src/data/transaction_pool.ts) ----
    pendingTransactions,  \* Map<hash, PoolTransaction>, in insertion order
    queuedTransactions,   \* Map<hash, PoolTransaction>, in insertion order
    inFlight,          \* addTransaction calls suspended between the capacity
                       \* check and the insertion
    now,               \* Date.now()
    storage,           \* the content of the snapshot file
    lastPersisted,     \* TransactionPersistence.lastPersisted
    loaded,            \* whether loadPersistedTransactions has run
    poolLast,          \* the pool operation that led to the current state
    admissionLast,     \* the last addTransaction call that ran alone, and
                       \* its result
    \* ---- StateManager (src/unnamed/part_003) ----
    blockStates,       \* Map<hash, BlockState>: the blocks the node holds
    networkDifficulty, \* the value getNetworkDifficulty() reports
    \* ---- BlockValidator (src/verification/block_validator.ts) ----
    validationQueue,   \* Map<hash, ValidationTask>: the status per stated hash
    valLast,           \* the last validateBlock call and its outcome
    \* ---- ChainManager (src/chain/chain_manager.ts) ----
    chainState,        \* {lastBlock, height, totalDifficulty, forks}
    chainLast,         \* the last processNewBlock call and its outcome
    processing,        \* processNewBlock calls in arrival order, with the
                       \* await each one is suspended at
    \* ---- FinalityTracker (src/sync/finality_tracker.ts) ----
    finalityCache,     \* Map<hash, FinalityState>
    updating,          \* trackBlockFinality calls suspended at their await
    \* ---- StateManager error log (src/unnamed/part_003) ----
    errorLogFile,      \* the array in ./data/error_logs.json
    errorCalls,        \* logPropagationError calls suspended at an await
    errorNext,         \* the number of the next error to be logged
    errorCompleted,    \* the errors whose logPropagationError call returned
    \* ---- SyncManager (src/sync/sync.ts) ----
    syncState,         \* isSyncing and currentBlock of this.syncState
    syncRun,           \* the running performBlockSync and the await it is at
    syncLast,          \* what the last step of the sync manager did
    \* ---- TransactionExecutor (src/data/transaction_executor.ts) ----
    stateDB,           \* account -> [balance, nonce] of the StateDB
    execLast,          \* the last execute call: transaction, state before, outcome
    \* ---- BlockPropagationManager (src/unnamed/part_000) ----
    propagationCache,  \* Map<hash, PropagationState>
    propAccepted,      \* the <<hash, peer>> pairs handleReceivedBlock accepted
    propBroadcasts,    \* the broadcasts made so far
    propLast           \* the last handleReceivedBlock call

nonceVars == <<nonceCache, accountNonce, nonceLast, nonceReads, engineLast>>

poolVars == <<pendingTransactions, queuedTransactions, inFlight, now, storage,
              lastPersisted, loaded, poolLast, admissionLast>>

storeVars == <<blockStates, networkDifficulty>>

validatorVars == <<validationQueue, valLast>>

chainVars == <<chainState, chainLast, processing>>

finalityVars == <<finalityCache, updating>>

errorVars == <<errorLogFile, errorCalls, errorNext, errorCompleted>>

syncVars == <<syncState, syncRun, syncLast>>

execVars == <<stateDB, execLast>>

propVars == <<propagationCache, propAccepted, propBroadcasts, propLast>>

blockSideVars == <<storeVars, validatorVars, chainVars, finalityVars, errorVars,
                   syncVars, execVars, propVars>>

vars == <<nonceCache, accountNonce, nonceLast, nonceReads, engineLast,
          pendingTransactions,
          queuedTransactions, inFlight, now, storage, lastPersisted, loaded,
          poolLast, admissionLast, blockStates, networkDifficulty, validationQueue, valLast,
          chainState, chainLast, processing, finalityCache, updating,
          errorLogFile, errorCalls, errorNext, errorCompleted,
          syncState, syncRun, syncLast, stateDB, execLast,
          propagationCache, propAccepted, propBroadcasts, propLast>>

----------------------------------------------------------------------------
(***************************************************************************)
(* Results                                                                 *)
(***************************************************************************)
Valid == [isValid |-> TRUE, error |-> ""]

Invalid(reason) == [isValid |-> FALSE, error |-> reason]

----------------------------------------------------------------------------
(***************************************************************************)
(* NonceValidator                                                          *)
(***************************************************************************)
MAX_PENDING_NONCES == 10

MAX_NONCE_GAP == 100

\* Bounds of the Nonce-rule model.
MaxAccountNonce == 2

MaxSmallNonce == 12

Accounts == {"a1"}

\* NONCE_REGEX.test(nonce.toString()): a string of decimal digits only.
validateNonceFormat(nonce) == nonce >= 0

\* const expectedNonce = currentNonce + nonceSet.size
ExpectedNonceOffByOne(currentNonce, nonceSet) ==
    currentNonce + Cardinality(nonceSet) + 1

ExpectedNonce(currentNonce, nonceSet) == currentNonce + Cardinality(nonceSet)

\* The rule as the placeholder class of the transaction validator has it:
\* every nonce is accepted.
NonceValidateStub(nonce, currentNonce, nonceSet) == Valid

\* The rule without its sequence check.
NonceValidateNoSequence(nonce, currentNonce, nonceSet) ==
    IF ~validateNonceFormat(nonce) THEN Invalid("Invalid nonce format")
    ELSE IF nonce \in nonceSet THEN Invalid("Nonce already used")
    ELSE IF nonce < currentNonce
        THEN Invalid("Nonce too low - transaction replay prevented")
    ELSE IF nonce > currentNonce + MAX_NONCE_GAP THEN Invalid("Nonce gap too large")
    ELSE IF Cardinality(nonceSet) >= MAX_PENDING_NONCES
        THEN Invalid("Too many pending transactions")
    ELSE Valid

\* The rule without its limit on the reserved nonces.
NonceValidateNoLimit(nonce, currentNonce, nonceSet) ==
    IF ~validateNonceFormat(nonce) THEN Invalid("Invalid nonce format")
    ELSE IF nonce \in nonceSet THEN Invalid("Nonce already used")
    ELSE IF nonce < currentNonce
        THEN Invalid("Nonce too low - transaction replay prevented")
    ELSE IF nonce > currentNonce + MAX_NONCE_GAP THEN Invalid("Nonce gap too large")
    ELSE IF nonce # ExpectedNonce(currentNonce, nonceSet)
        THEN Invalid("Invalid nonce sequence")
    ELSE Valid

\* NonceValidator.validate: the result for a transaction with this nonce, the
\* sender's account nonce being currentNonce and its reserved set nonceSet.
NonceValidate(nonce, currentNonce, nonceSet) ==
    IF ~validateNonceFormat(nonce) THEN Invalid("Invalid nonce format")
    ELSE IF nonce \in nonceSet THEN Invalid("Nonce already used")
    ELSE IF nonce < currentNonce
        THEN Invalid("Nonce too low - transaction replay prevented")
    ELSE IF nonce > currentNonce + MAX_NONCE_GAP THEN Invalid("Nonce gap too large")
    ELSE IF Cardinality(nonceSet) >= MAX_PENDING_NONCES
        THEN Invalid("Too many pending transactions")
    ELSE IF nonce # ExpectedNonce(currentNonce, nonceSet)
        THEN Invalid("Invalid nonce sequence")
    ELSE Valid

\* The nonces a submission may carry: a malformed one, the small ones, and
\* the ones around the gap limit of the sender's account nonce.
NonceInputs(currentNonce) ==
    {-1} \cup (0 .. MaxSmallNonce)
         \cup { currentNonce + MAX_NONCE_GAP + d : d \in {-1, 0, 1} }

\* nonceLast describes the operation that led to the current state when it
\* was a validate call: the submitted nonce, the account nonce read, the size
\* of the reserved set before the call, and the result.
NoNonceCall ==
    [called |-> FALSE, from |-> "a1", nonce |-> 0, currentNonce |-> 0,
     reservedCount |-> 0, result |-> Valid]

\* engineLast describes the operation that led to the current state when it
\* was a validateTransaction call of the rule engine.
NoEngineCall == [called |-> FALSE]

NonceInit ==
    /\ nonceCache = [a \in Accounts |-> {}]
    /\ accountNonce = [a \in Accounts |-> 0]
    /\ nonceLast = NoNonceCall
    /\ nonceReads = {}
    /\ engineLast = NoEngineCall

\* validate(tx, context): the result, and on acceptance the nonce is cached.
NonceValidatorValidate(from, nonce) ==
    LET currentNonce == accountNonce[from]
        nonceSet == nonceCache[from]
        result == NonceValidate(nonce, currentNonce, nonceSet)
    IN  /\ nonceCache' = [nonceCache EXCEPT
                            ![from] = IF result.isValid THEN nonceSet \cup {nonce}
                                      ELSE nonceSet]
        /\ nonceLast' = [called |-> TRUE, from |-> from, nonce |-> nonce,
                         currentNonce |-> currentNonce,
                         reservedCount |-> Cardinality(nonceSet),
                         result |-> result]
        /\ UNCHANGED <<accountNonce, nonceReads>>

\* clearNonce(address, nonce)
clearNonce(address, nonce) ==
    /\ nonce \in nonceCache[address]
    /\ nonceCache' = [nonceCache EXCEPT ![address] = @ \ {nonce}]
    /\ nonceLast' = NoNonceCall
    /\ UNCHANGED <<accountNonce, nonceReads>>

\* A committed block advances the sender's account nonce.
AdvanceAccountNonce(address) ==
    /\ accountNonce[address] < MaxAccountNonce
    /\ accountNonce' = [accountNonce EXCEPT ![address] = @ + 1]
    /\ nonceLast' = NoNonceCall
    /\ UNCHANGED <<nonceCache, nonceReads>>

NonceNext ==
    \/ \E a \in Accounts : \E n \in NonceInputs(accountNonce[a]) :
          /\ NonceValidatorValidate(a, n)
          /\ UNCHANGED <<engineLast, poolVars, blockSideVars>>
    \/ \E a \in Accounts : \E n \in nonceCache[a] :
          clearNonce(a, n) /\ UNCHANGED <<engineLast, poolVars, blockSideVars>>
    \/ \E a \in Accounts :
          /\ AdvanceAccountNonce(a)
          /\ UNCHANGED <<engineLast, poolVars, blockSideVars>>

\* ---- validate as the scheduler runs it ----
\* A call is suspended at `await this.stateManager.getAccountState(tx.from)`;
\* everything after the await, from isNonceUsed to addNonceToCache, runs
\* without a further suspension.

\* validate calls in flight at one time
MaxNonceReads == 2

\* validate(tx) up to the await: the format test has passed and the account
\* state is read.  acceptedSince collects the nonces the rule accepts for the
\* account while this call is suspended.
NonceRead(id, from, nonce) ==
    /\ validateNonceFormat(nonce)
    /\ \A c \in nonceReads : c.id # id
    /\ nonceReads' = nonceReads \cup
           {[id |-> id, from |-> from, nonce |-> nonce,
             currentNonce |-> accountNonce[from], acceptedSince |-> {}]}
    /\ nonceLast' = NoNonceCall
    /\ UNCHANGED <<nonceCache, accountNonce>>

\* validate(tx) from the await on, with the account nonce that was read and
\* the reserved set as it is now.
NonceResume(c) ==
    /\ c \in nonceReads
    /\ LET nonceSet == nonceCache[c.from]
           result == NonceValidate(c.nonce, c.currentNonce, nonceSet)
       IN  /\ nonceCache' = [nonceCache EXCEPT
                               ![c.from] = IF result.isValid
                                           THEN nonceSet \cup {c.nonce}
                                           ELSE nonceSet]
           /\ nonceLast' = [called |-> TRUE, from |-> c.from, nonce |-> c.nonce,
                            currentNonce |-> c.currentNonce,
                            reservedCount |-> Cardinality(nonceSet),
                            result |-> result]
           /\ nonceReads' =
                  { IF result.isValid /\ d.from = c.from
                    THEN [d EXCEPT !.acceptedSince = @ \cup {c.nonce}]
                    ELSE d : d \in nonceReads \ {c} }
    /\ UNCHANGED accountNonce

NonceAsyncNext ==
    \/ \E id \in 1 .. MaxNonceReads : \E a \in Accounts :
       \E n \in 0 .. MaxAccountNonce :
          /\ NonceRead(id, a, n)
          /\ UNCHANGED <<engineLast, poolVars, blockSideVars>>
    \/ \E c \in nonceReads :
          /\ NonceResume(c)
          /\ UNCHANGED <<engineLast, poolVars, blockSideVars>>
    \/ \E a \in Accounts : \E n \in nonceCache[a] :
          clearNonce(a, n) /\ UNCHANGED <<engineLast, poolVars, blockSideVars>>
    \/ \E a \in Accounts :
          /\ AdvanceAccountNonce(a)
          /\ UNCHANGED <<engineLast, poolVars, blockSideVars>>

----------------------------------------------------------------------------
(***************************************************************************)
(* TransactionPool and TransactionPersistence                              *)
(*                                                                         *)
(* A Map is a sequence of entries with distinct hashes, in insertion       *)
(* order.  Numeric fields that the source declares as bigint carry their   *)
(* kind, because JSON.stringify treats a bigint and a number differently.  *)
(***************************************************************************)

\* TransactionPoolConfig of the modelled node.
MaxPendingTransactions == 1
MinGasPrice == 2
TransactionTimeout == 2000

\* persistenceInterval of TransactionPersistence
PERSISTENCE_INTERVAL == 5000

\* the minimum gas limit accepted by validateBasicFields
BASE_GAS_LIMIT == 21000

\* the clock advances in steps of TickStep up to MaxNow
TickStep == 2500
MaxNow == 7500

\* number of addTransaction calls that may be suspended at their await
MaxInFlight == 2

\* balance the state manager reports for every account
AccountBalance == 100000

\* bigint and number values of the runtime
BigInt(n) == [kind |-> "bigint", v |-> n]
Number(n) == [kind |-> "number", v |-> n]

\* The transactions submitted to the pool.
Transactions ==
    { [hash |-> "t1", from |-> "a1", to |-> "a2", nonce |-> 0, value |-> 100,
       gasPrice |-> 3, gasLimit |-> 21000],
      [hash |-> "t2", from |-> "a1", to |-> "a2", nonce |-> 1, value |-> 100,
       gasPrice |-> 2, gasLimit |-> 21000],
      [hash |-> "t3", from |-> "a1", to |-> "a2", nonce |-> 1, value |-> 0,
       gasPrice |-> 1, gasLimit |-> 21000],
      [hash |-> "t4", from |-> "a1", to |-> "a2", nonce |-> 1, value |-> 0,
       gasPrice |-> 3, gasLimit |-> 20999],
      [hash |-> "t5", from |-> "a1", to |-> "a2", nonce |-> 1, value |-> 99000,
       gasPrice |-> 3, gasLimit |-> 21000],
      [hash |-> "t6", from |-> "a1", to |-> "", nonce |-> 1, value |-> 0,
       gasPrice |-> 3, gasLimit |-> 21000] }

\* ---- Map operations ----
MapHas(map, hash) == \E i \in 1 .. Len(map) : map[i].transaction.hash = hash

\* map.set(hash, entry): an existing key keeps its position
MapSet(map, entry) ==
    IF MapHas(map, entry.transaction.hash)
    THEN [i \in 1 .. Len(map) |->
            IF map[i].transaction.hash = entry.transaction.hash THEN entry
            ELSE map[i]]
    ELSE Append(map, entry)

\* map.delete(hash)
MapDelete(map, hash) == SelectSeq(map, LAMBDA e : e.transaction.hash # hash)

MapKeys(map) == { map[i].transaction.hash : i \in 1 .. Len(map) }

\* ---- Validation of a submission ----
validateBasicFields(tx) ==
    /\ tx.hash # "" /\ tx.from # "" /\ tx.to # ""
    /\ ~(tx.value < 0)
    /\ ~(tx.gasPrice < 0 \/ tx.gasLimit < BASE_GAS_LIMIT)

validateNonce(tx, accNonce) == tx.nonce >= accNonce

\* validateBalance without the cost of the gas
validateBalanceValueOnly(tx, balance) == balance - tx.value >= 0

\* accountState.balance >= tx.value + (tx.gasLimit * tx.gasPrice) over the
\* unbounded integers of bigint, for the non-negative value and gas price and
\* the positive gas limit that validateBasicFields lets through: the product
\* is compared by division.
validateBalance(tx, balance) ==
    /\ balance - tx.value >= 0
    /\ \/ tx.gasPrice = 0
       \/ tx.gasLimit <= (balance - tx.value) \div tx.gasPrice

\* TransactionPool.validateTransaction
\* validateTransaction without the nonce and balance checks
validateFieldsOnly(tx, accNonce, balance) == validateBasicFields(tx)

validateTransaction(tx, accNonce, balance) ==
    /\ validateBasicFields(tx)
    /\ validateNonce(tx, accNonce)
    /\ validateBalance(tx, balance)

\* prepareTransaction: the status is 'pending' for every entry
prepareTransaction(tx, time) ==
    [transaction |-> tx, addedAt |-> time, gasPrice |-> BigInt(tx.gasPrice),
     nonce |-> tx.nonce, status |-> "pending"]

\* canAddToPending without the capacity check
canAddToPendingNoCapacity(entry, pending) == ~(entry.gasPrice.v < MinGasPrice)

canAddToPending(entry, pending) ==
    /\ ~(Len(pending) >= MaxPendingTransactions)
    /\ ~(entry.gasPrice.v < MinGasPrice)

\* ---- Maintenance ----
\* cleanExpiredTransactions that removes nothing
cleanExpiredKeepAll(map, time) == map

\* The hashes for which the loop of cleanExpiredTransactions over one map
\* emits transaction:expired.
expiredEmitted(map, time) ==
    { map[i].transaction.hash :
        i \in { j \in 1 .. Len(map) : time - map[j].addedAt > TransactionTimeout } }

\* cleanExpiredTransactions, for one map
cleanExpired(map, time) ==
    SelectSeq(map, LAMBDA e : ~(time - e.addedAt > TransactionTimeout))

\* Array.prototype.sort with (a, b) => Number(b.gasPrice - a.gasPrice): stable,
\* by descending gas price.
RECURSIVE InsertByGasPrice(_, _)
InsertByGasPrice(entry, sorted) ==
    IF sorted = <<>> THEN <<entry>>
    ELSE IF Head(sorted).gasPrice.v >= entry.gasPrice.v
         THEN <<Head(sorted)>> \o InsertByGasPrice(entry, Tail(sorted))
         ELSE <<entry>> \o sorted

RECURSIVE SortByGasPrice(_)
SortByGasPrice(map) ==
    IF map = <<>> THEN <<>>
    ELSE InsertByGasPrice(map[Len(map)], SortByGasPrice(SubSeq(map, 1, Len(map) - 1)))

\* The loop of promoteQueuedTransactions over the sorted queued entries.
RECURSIVE PromoteLoop(_, _, _)
PromoteLoop(sorted, pending, queued) ==
    IF sorted = <<>> THEN [pending |-> pending, queued |-> queued]
    ELSE LET entry == Head(sorted)
         IN  IF canAddToPending(entry, pending)
             THEN PromoteLoop(Tail(sorted), MapSet(pending, entry),
                              MapDelete(queued, entry.transaction.hash))
             ELSE PromoteLoop(Tail(sorted), pending, queued)

\* Promotion over the queued entries in insertion order, unsorted.
promoteInInsertionOrder(pending, queued) ==
    PromoteLoop(queued, pending, queued)

promoteQueuedTransactions(pending, queued) ==
    PromoteLoop(SortByGasPrice(queued), pending, queued)

\* ---- Persistence ----
\* JSON.stringify throws a TypeError on a bigint; a number is written as a
\* JSON number.
JsonSafe(entry) == entry.gasPrice.kind # "bigint"

JsonEntry(entry) ==
    [transaction |-> entry.transaction, addedAt |-> entry.addedAt,
     gasPrice |-> [json |-> "number", text |-> entry.gasPrice.v],
     nonce |-> entry.nonce, status |-> entry.status]

\* JSON.parse: a JSON number becomes a number
ParseEntry(j) ==
    [transaction |-> j.transaction, addedAt |-> j.addedAt,
     gasPrice |-> Number(j.gasPrice.text),
     nonce |-> j.nonce, status |-> j.status]

\* The snapshot file does not exist.
NoFile == [exists |-> FALSE, pending |-> <<>>, queued |-> <<>>, timestamp |-> 0]

\* serializeTransactions(pending, queued): the text written, or the TypeError
\* of JSON.stringify (ok is FALSE).
serializeTransactions(pending, queued, time) ==
    IF /\ \A i \in 1 .. Len(pending) : JsonSafe(pending[i])
       /\ \A i \in 1 .. Len(queued) : JsonSafe(queued[i])
    THEN [ok |-> TRUE,
          data |-> [exists |-> TRUE,
                    pending |-> [i \in 1 .. Len(pending) |-> JsonEntry(pending[i])],
                    queued |-> [i \in 1 .. Len(queued) |-> JsonEntry(queued[i])],
                    timestamp |-> time]]
    ELSE [ok |-> FALSE, data |-> NoFile]

\* deserializeTransactions(data)
deserializeTransactions(data) ==
    [pending |-> [i \in 1 .. Len(data.pending) |-> ParseEntry(data.pending[i])],
     queued |-> [i \in 1 .. Len(data.queued) |-> ParseEntry(data.queued[i])]]

\* TransactionPersistence.loadPersistedTransactions: a missing file reads as
\* two empty maps.
loadPersisted(file) ==
    IF ~file.exists THEN [pending |-> <<>>, queued |-> <<>>]
    ELSE deserializeTransactions(file)

\* The loops of TransactionPool.loadPersistedTransactions.
RECURSIVE RestoreLoop(_, _, _, _)
RestoreLoop(entries, map, accNonce, balance) ==
    IF entries = <<>> THEN map
    ELSE RestoreLoop(Tail(entries),
                     IF validateTransaction(Head(entries).transaction, accNonce, balance)
                     THEN MapSet(map, Head(entries)) ELSE map,
                     accNonce, balance)

\* admissionLast before any addTransaction call has run alone
NoAdmission == [called |-> FALSE]

\* The pool after its constructor, over one of the given snapshot files.
PoolInitOver(files) ==
    /\ pendingTransactions = <<>>
    /\ queuedTransactions = <<>>
    /\ inFlight = {}
    /\ now = PERSISTENCE_INTERVAL
    /\ storage \in files
    /\ lastPersisted = 0
    /\ loaded = FALSE
    /\ poolLast = "init"
    /\ admissionLast = NoAdmission

\* The data directory holds no snapshot when the node first starts.
PoolInit == PoolInitOver({NoFile})

\* Snapshot files found in the data directory at start: up to two pending
\* entries and up to one queued entry, as JSON.parse reads them.
SnapshotEntry(tx) ==
    JsonEntry(prepareTransaction(tx, 0))

SnapshotFiles ==
    { [exists |-> TRUE, pending |-> p, queued |-> q, timestamp |-> 0] :
        p \in {<<>>} \cup { <<SnapshotEntry(t)>> : t \in Transactions }
              \cup { <<SnapshotEntry(pair[1]), SnapshotEntry(pair[2])>> :
                        pair \in { d \in Transactions \X Transactions :
                                     d[1].hash # d[2].hash } },
        q \in {<<>>} \cup { <<SnapshotEntry(t)>> : t \in Transactions } }

\* addTransaction up to the suspension of processTransaction at
\* `await this.canAddToPending(tx)`: the submission is validated and prepared
\* and the capacity check is evaluated.  A rejected submission returns here.
AddTransactionCheck(tx) ==
    /\ Cardinality(inFlight) < MaxInFlight
    /\ \A c \in inFlight : c.entry.transaction.hash # tx.hash
    /\ IF validateTransaction(tx, accountNonce[tx.from], AccountBalance)
       THEN LET entry == prepareTransaction(tx, now)
            IN  /\ inFlight' = inFlight \cup
                       {[entry |-> entry,
                         toPending |-> canAddToPending(entry, pendingTransactions)]}
                /\ poolLast' = "addTransaction:check"
       ELSE /\ inFlight' = inFlight
            /\ poolLast' = "addTransaction:rejected"
    /\ UNCHANGED <<pendingTransactions, queuedTransactions, now, storage,
                   lastPersisted, loaded, admissionLast>>

\* addTransaction from the resumption on: addToPending or addToQueue, as the
\* check decided.
AddTransactionInsert(c) ==
    /\ c \in inFlight
    /\ inFlight' = inFlight \ {c}
    /\ IF c.toPending
       THEN /\ pendingTransactions' = MapSet(pendingTransactions, c.entry)
            /\ UNCHANGED queuedTransactions
       ELSE /\ queuedTransactions' = MapSet(queuedTransactions, c.entry)
            /\ UNCHANGED pendingTransactions
    /\ poolLast' = "addTransaction:ok"
    /\ UNCHANGED <<now, storage, lastPersisted, loaded, admissionLast>>

\* updatePool: one maintenance cycle
updatePool ==
    LET pending1 == cleanExpired(pendingTransactions, now)
        queued1 == cleanExpired(queuedTransactions, now)
        promoted == promoteQueuedTransactions(pending1, queued1)
    IN  /\ pendingTransactions' = promoted.pending
        /\ queuedTransactions' = promoted.queued
        /\ poolLast' = "updatePool"
        /\ UNCHANGED <<inFlight, now, storage, lastPersisted, loaded,
                       admissionLast>>

\* TransactionPersistence.persistTransactions, as monitorPoolHealth calls it
persistTransactions ==
    /\ IF now - lastPersisted < PERSISTENCE_INTERVAL
       THEN /\ UNCHANGED <<storage, lastPersisted>>
            /\ poolLast' = "persist:skipped"
       ELSE LET s == serializeTransactions(pendingTransactions,
                                           queuedTransactions, now)
            IN  IF s.ok
                THEN /\ storage' = s.data
                     /\ lastPersisted' = now
                     /\ poolLast' = "persist"
                ELSE /\ UNCHANGED <<storage, lastPersisted>>
                     /\ poolLast' = "persist:error"
    /\ UNCHANGED <<pendingTransactions, queuedTransactions, inFlight, now, loaded,
                   admissionLast>>

\* TransactionPool.cleanup: the monitoring interval is cancelled,
\* persistTransactions is called on the two tiers (with its interval test and
\* its catch of the serialization error), and then both tiers are cleared.
cleanup ==
    /\ IF now - lastPersisted < PERSISTENCE_INTERVAL
       THEN /\ UNCHANGED <<storage, lastPersisted>>
            /\ poolLast' = "cleanup:skipped"
       ELSE LET s == serializeTransactions(pendingTransactions,
                                           queuedTransactions, now)
            IN  IF s.ok
                THEN /\ storage' = s.data
                     /\ lastPersisted' = now
                     /\ poolLast' = "cleanup:persisted"
                ELSE /\ UNCHANGED <<storage, lastPersisted>>
                     /\ poolLast' = "cleanup:error"
    /\ pendingTransactions' = <<>>
    /\ queuedTransactions' = <<>>
    /\ UNCHANGED <<inFlight, now, loaded, admissionLast>>

\* TransactionPool.loadPersistedTransactions, started by the constructor and
\* not awaited by it.
loadPersistedTransactions ==
    /\ ~loaded
    /\ loaded' = TRUE
    /\ LET file == loadPersisted(storage)
       IN  /\ pendingTransactions' =
                 RestoreLoop(file.pending, pendingTransactions,
                             accountNonce["a1"], AccountBalance)
           /\ queuedTransactions' =
                 RestoreLoop(file.queued, queuedTransactions,
                             accountNonce["a1"], AccountBalance)
    /\ poolLast' = "load"
    /\ UNCHANGED <<inFlight, now, storage, lastPersisted, admissionLast>>

\* The node restarts: a new pool and a new persistence object over the same
\* snapshot file.
Restart ==
    /\ pendingTransactions' = <<>>
    /\ queuedTransactions' = <<>>
    /\ inFlight' = {}
    /\ lastPersisted' = 0
    /\ loaded' = FALSE
    /\ poolLast' = "init"
    /\ UNCHANGED <<now, storage, admissionLast>>

\* Time passes.
Tick ==
    /\ now < MaxNow
    /\ now' = now + TickStep
    /\ UNCHANGED <<pendingTransactions, queuedTransactions, inFlight, storage,
                   lastPersisted, loaded, poolLast, admissionLast>>

\* ---- addTransaction with no other call in flight ----

\* 1e9: the gas price of one Gwei, in wei
GWEI == 1000000000

\* Balances the state manager reports in the admission runs.
AdmissionBalances == {1000, AccountBalance, 2 * GWEI}

\* The submissions of the admission runs: the transaction of the admission
\* scenario, and transactions with low gas prices.
AdmissionTransactions ==
    { [hash |-> "s1", from |-> "a1", to |-> "a2", nonce |-> 0, value |-> 100,
       gasPrice |-> GWEI, gasLimit |-> 21000],
      [hash |-> "s2", from |-> "a1", to |-> "a2", nonce |-> 1, value |-> 100,
       gasPrice |-> 5, gasLimit |-> 21000] }
    \cup { tx \in Transactions : tx.hash \in {"t1", "t2", "t3"} }

\* addTransaction(tx), run to completion: validateTransaction,
\* prepareTransaction and processTransaction.
addTransaction(tx, balance) ==
    LET accepted == validateTransaction(tx, accountNonce[tx.from], balance)
        entry == prepareTransaction(tx, now)
        toPending == canAddToPending(entry, pendingTransactions)
    IN  /\ inFlight = {}
        /\ IF accepted
           THEN /\ IF toPending
                   THEN /\ pendingTransactions' =
                              MapSet(pendingTransactions, entry)
                        /\ UNCHANGED queuedTransactions
                   ELSE /\ queuedTransactions' =
                              MapSet(queuedTransactions, entry)
                        /\ UNCHANGED pendingTransactions
                /\ poolLast' = "addTransaction:ok"
           ELSE /\ UNCHANGED <<pendingTransactions, queuedTransactions>>
                /\ poolLast' = "addTransaction:rejected"
        /\ admissionLast' =
               [called |-> TRUE, tx |-> tx, balance |-> balance,
                accountNonce |-> accountNonce[tx.from],
                pendingBefore |-> MapKeys(pendingTransactions),
                queuedBefore |-> MapKeys(queuedTransactions),
                success |-> accepted,
                tier |-> IF ~accepted THEN "none"
                         ELSE IF toPending THEN "pending" ELSE "queued"]
        /\ UNCHANGED <<inFlight, now, storage, lastPersisted, loaded>>

AdmissionNext ==
    \/ \E tx \in AdmissionTransactions : \E balance \in AdmissionBalances :
          /\ addTransaction(tx, balance)
          /\ UNCHANGED <<nonceVars, blockSideVars>>
    \/ updatePool /\ UNCHANGED <<nonceVars, blockSideVars>>
    \/ Tick /\ UNCHANGED <<nonceVars, blockSideVars>>

\* A node that starts over a snapshot file while the account state moves.
RestoreNext ==
    \/ loadPersistedTransactions /\ UNCHANGED <<nonceVars, blockSideVars>>
    \/ Restart /\ UNCHANGED <<nonceVars, blockSideVars>>
    \/ \E a \in Accounts :
          /\ AdvanceAccountNonce(a)
          /\ UNCHANGED <<engineLast, poolVars, blockSideVars>>

PoolNext ==
    \/ \E tx \in Transactions :
          AddTransactionCheck(tx) /\ UNCHANGED <<nonceVars, blockSideVars>>
    \/ \E c \in inFlight :
          AddTransactionInsert(c) /\ UNCHANGED <<nonceVars, blockSideVars>>
    \/ updatePool /\ UNCHANGED <<nonceVars, blockSideVars>>
    \/ persistTransactions /\ UNCHANGED <<nonceVars, blockSideVars>>
    \/ cleanup /\ UNCHANGED <<nonceVars, blockSideVars>>
    \/ loadPersistedTransactions /\ UNCHANGED <<nonceVars, blockSideVars>>
    \/ Restart /\ UNCHANGED <<nonceVars, blockSideVars>>
    \/ Tick /\ UNCHANGED <<nonceVars, blockSideVars>>
    \/ \E a \in Accounts :
          /\ AdvanceAccountNonce(a)
          /\ UNCHANGED <<engineLast, poolVars, blockSideVars>>

----------------------------------------------------------------------------
(***************************************************************************)
(* Blocks and the StateManager block store                                 *)
(***************************************************************************)

\* Bounds of the block inputs.
MaxHeight == 3
MaxQueue == 1
MaxProcessed == 2
MaxTotalDifficulty == 300
FinalityThreshold == 2

\* The two values the modelled network difficulty takes: the placeholder of
\* getNetworkDifficulty and a value with a non-zero tolerance.
PlaceholderDifficulty == 0
LiveDifficulty == 200

TIMESTAMP_TOLERANCE == 15000

\* stateDB.getRoot() after the (empty) transaction list of a block is applied
STATE_ROOT == "0xstate"

\* computeReceiptRoot of no receipts
EMPTY_RECEIPT_ROOT == "0x00"

\* sha256(JSON.stringify(block.header)).digest('hex'): a value that determines
\* the header and is determined by it.  Every hash is a tuple.
calculateBlockHash(block) ==
    <<"sha256", block.header.parentHash, block.header.number,
      block.header.timestamp, block.header.difficulty, block.header.stateRoot,
      block.header.receiptsRoot>>

\* The four fields validateBlockStructure looks for.
RequiredFields == {"hash", "header", "body", "transactions"}

\* A well-formed block over a header.  uncles is "undefined" when the block
\* object has no uncles property (as BlockData declares), else "none" or
\* "one"; rewardPaid is whether the miner's balance rose by the expected
\* reward.
Block(header, uncles, rewardPaid) ==
    [has |-> RequiredFields,
     hash |-> calculateBlockHash([header |-> header]),
     header |-> header, uncles |-> uncles, rewardPaid |-> rewardPaid]

Header(number, parentHash, timestamp, difficulty, stateRoot, receiptsRoot) ==
    [number |-> number, parentHash |-> parentHash, timestamp |-> timestamp,
     difficulty |-> difficulty, stateRoot |-> stateRoot,
     receiptsRoot |-> receiptsRoot]

\* stateManager.getGenesisBlock()
GenesisBlock ==
    Block(Header(0, <<"0x0">>, 0, 0, STATE_ROOT, EMPTY_RECEIPT_ROOT), "none", TRUE)

\* A parent hash no stored block has, and a stated hash no header has.
UnknownHash == <<"0xunknown">>
BadHash == <<"0xbad">>

\* StateManager.getBlock(hash) !== null
hasBlock(store, hash) == \E b \in store : b.hash = hash

\* StateManager.getBlock(hash), for a stored hash
getBlock(store, hash) == CHOOSE b \in store : b.hash = hash

\* StateManager.getLatestBlock(): a block of the greatest number
getLatestBlock(store) ==
    CHOOSE b \in store : \A c \in store : c.header.number <= b.header.number

\* StateManager.updateBlockState(hash, state): Map.set
updateBlockStateMap(store, block) ==
    {b \in store : b.hash # block.hash} \cup {block}

\* getBlockAtHeight(height): the block of that number on the path from the
\* canonical tip to genesis, as a set of at most one block.
RECURSIVE getBlockAtHeight(_, _, _)
getBlockAtHeight(store, tip, height) ==
    IF tip.header.number = height THEN {tip}
    ELSE IF tip.header.number < height \/ ~hasBlock(store, tip.header.parentHash)
         THEN {}
         ELSE getBlockAtHeight(store, getBlock(store, tip.header.parentHash),
                               height)

----------------------------------------------------------------------------
(***************************************************************************)
(* ConsensusManager (src/chain/consensus_manager.ts)                       *)
(***************************************************************************)
isValidTimestamp(timestamp, time) ==
    /\ timestamp <= time + TIMESTAMP_TOLERANCE
    /\ timestamp >= time - TIMESTAMP_TOLERANCE

\* networkDifficulty / BigInt(100)
difficultyTolerance(network) == network \div 100

\* isValidDifficulty without the lower end of the tolerance
isValidDifficultyNoFloor(difficulty, network) ==
    difficulty <= network + difficultyTolerance(network)

isValidDifficulty(difficulty, network) ==
    /\ difficulty >= network - difficultyTolerance(network)
    /\ difficulty <= network + difficultyTolerance(network)

\* The message validateBlockHeader throws, "" when it returns.
validateBlockHeader(block, store, network, time) ==
    IF ~isValidTimestamp(block.header.timestamp, time)
    THEN "Invalid block timestamp"
    ELSE IF ~isValidDifficulty(block.header.difficulty, network)
    THEN "Invalid block difficulty"
    ELSE IF ~hasBlock(store, block.header.parentHash)
    THEN "Invalid parent hash"
    ELSE ""

\* The message validateBlockBody throws, "" when it returns: iterating an
\* undefined block.uncles is a TypeError, isValidUncle accepts no uncle.
validateBlockBody(block) ==
    IF block.uncles = "undefined" THEN "block.uncles is not iterable"
    ELSE IF block.uncles # "none" THEN "Invalid uncle block: 0xuncle"
    ELSE IF ~block.rewardPaid THEN "Invalid block reward distribution"
    ELSE ""

\* The message validateStateTransition throws, "" when it returns.
validateStateTransition(block) ==
    IF STATE_ROOT # block.header.stateRoot THEN "Invalid state root"
    ELSE IF EMPTY_RECEIPT_ROOT # block.header.receiptsRoot
    THEN "Invalid receipt root"
    ELSE ""

\* The first message of a sequence of steps, "" when every step returns.
FirstError(messages) ==
    IF \A i \in 1 .. Len(messages) : messages[i] = "" THEN ""
    ELSE messages[CHOOSE i \in 1 .. Len(messages) :
                    /\ messages[i] # ""
                    /\ \A j \in 1 .. i - 1 : messages[j] = ""]

\* The outcome of an async call: a returned result or a rejected promise.
Returned(result) == [thrown |-> FALSE, result |-> result]
Thrown(message) == [thrown |-> TRUE, result |-> Invalid(message)]

\* ConsensusManager.validateBlock: createConsensusContext runs before the
\* try block, so its error rejects the call.
ConsensusValidateBlock(block, store, network, time) ==
    IF ~hasBlock(store, block.header.parentHash)
    THEN Thrown("Parent block not found")
    ELSE LET message ==
                 FirstError(<<validateBlockHeader(block, store, network, time),
                              validateBlockBody(block),
                              validateStateTransition(block)>>)
         IN  Returned(IF message = "" THEN Valid ELSE Invalid(message))

\* consensusManager.validateBlockConsensus(block): the header, body and
\* state-replay checks of ConsensusManager, throwing the reason of a failed
\* check.  The message thrown, "" when it returns.
validateBlockConsensus(block, store, network, time) ==
    ConsensusValidateBlock(block, store, network, time).result.error

----------------------------------------------------------------------------
(***************************************************************************)
(* BlockValidator (src/verification/block_validator.ts)                    *)
(***************************************************************************)

\* The message validateBlockStructure throws, "" when it returns.
validateBlockStructure(block) ==
    IF "header" \notin block.has \/ "body" \notin block.has
    THEN "Invalid block structure"
    ELSE IF "hash" \notin block.has THEN "Missing required field: hash"
    ELSE IF "transactions" \notin block.has
    THEN "Missing required field: transactions"
    ELSE ""

\* validateBlockIntegrity passes whatever the block holds
validateBlockIntegrityNoCheck(block) == ""

\* The message validateBlockIntegrity throws, "" when it returns.
validateBlockIntegrity(block) ==
    IF calculateBlockHash(block) # block.hash THEN "Invalid block hash"
    ELSE ""

\* The message caught by validateBlock, "" when no step throws.
ValidationError(block, store, network, time) ==
    IF validateBlockStructure(block) # "" THEN validateBlockStructure(block)
    ELSE IF validateBlockIntegrity(block) # "" THEN validateBlockIntegrity(block)
    ELSE validateBlockConsensus(block, store, network, time)

\* validateBlock accepts whatever the steps report
validateBlockResultAccepting(block, store, network, time) == Valid

\* The ValidationResult validateBlock returns.
validateBlockResult(block, store, network, time) ==
    IF ValidationError(block, store, network, time) = "" THEN Valid
    ELSE Invalid(ValidationError(block, store, network, time))

\* Whether validateBlock reaches validationQueue.set(block.hash, task).
ReachesQueue(block) ==
    validateBlockStructure(block) = "" /\ validateBlockIntegrity(block) = ""

\* The validation queue after validateBlock: the task of the block, or, when
\* an early step threw, the task already queued under the stated hash.
validateBlockQueue(queue, block, store, network, time) ==
    IF ReachesQueue(block)
    THEN (block.hash :>
            (IF ValidationError(block, store, network, time) = ""
             THEN "completed" ELSE "failed")) @@ queue
    ELSE IF "hash" \in block.has /\ block.hash \in DOMAIN queue
         THEN (block.hash :> "failed") @@ queue
         ELSE queue

\* ---- The blocks submitted for validation ----
\* Timestamps at both ends of the accepted window and just outside it.
TimestampOffsets ==
    {0 - TIMESTAMP_TOLERANCE - 1, 0 - TIMESTAMP_TOLERANCE,
     TIMESTAMP_TOLERANCE, TIMESTAMP_TOLERANCE + 1}

\* A difficulty outside the tolerance of the network difficulty.
BadDifficulty(network) == network + difficultyTolerance(network) + 1

\* A block without a defect after the timestamp and parent checks, and the
\* blocks with one such defect.
SoundCase(network) ==
    [difficulty |-> network, stateRoot |-> STATE_ROOT,
     receiptsRoot |-> EMPTY_RECEIPT_ROOT, uncles |-> "none", rewardPaid |-> TRUE]

DefectCases(network) ==
    { SoundCase(network),
      [SoundCase(network) EXCEPT !.difficulty = BadDifficulty(network)],
      [SoundCase(network) EXCEPT !.stateRoot = "0xother"],
      [SoundCase(network) EXCEPT !.receiptsRoot = "0xother"],
      [SoundCase(network) EXCEPT !.uncles = "undefined"],
      [SoundCase(network) EXCEPT !.uncles = "one"],
      [SoundCase(network) EXCEPT !.rewardPaid = FALSE] }

\* Well-formed blocks at height 1: a known or an unknown parent, a timestamp
\* at one of the offsets from the clock, and one of the defect cases.
TypedBlocks(network, time, offsets) ==
    { Block(Header(1, p, time + o, c.difficulty, c.stateRoot, c.receiptsRoot),
            c.uncles, c.rewardPaid) :
        p \in {GenesisBlock.hash, UnknownHash}, o \in offsets,
        c \in DefectCases(network) }

\* The shapes a submitted object takes: the block itself, the block stating
\* another hash, and the block without one of its fields.
Shapes(block) ==
    {block, [block EXCEPT !.hash = BadHash]}
    \cup { [block EXCEPT !.has = RequiredFields \ {f}] :
             f \in {"body", "transactions"} }
    \cup { [block EXCEPT !.has = RequiredFields \ {f}, !.hash = BadHash] :
             f \in {"body", "transactions"} }
    \cup { [block EXCEPT !.has = RequiredFields \ {"hash"},
                         !.hash = <<"undefined">>] }

\* The block stating the hash of another block, one that has a task in the
\* validation queue.
Impostors(block, queue) ==
    { [block EXCEPT !.hash = h] : h \in DOMAIN queue \ {block.hash} }

NoValidation ==
    [op |-> "none", block |-> GenesisBlock, parentKnown |-> TRUE,
     time |-> 0, outcome |-> Returned(Valid)]

\* The store holds the genesis block; the network difficulty is one of the
\* given values.
StoreInit(difficulties) ==
    /\ blockStates = {GenesisBlock}
    /\ networkDifficulty \in difficulties

ValidatorInit ==
    /\ validationQueue = << >>
    /\ valLast = NoValidation

\* BlockValidator.validateBlock(block)
BlockValidatorValidateBlock(block) ==
    /\ \/ ~ReachesQueue(block)
       \/ block.hash \in DOMAIN validationQueue
       \/ Cardinality(DOMAIN validationQueue) < MaxQueue
    /\ validationQueue' =
           validateBlockQueue(validationQueue, block, blockStates,
                              networkDifficulty, now)
    /\ valLast' =
           [op |-> "BlockValidator.validateBlock", block |-> block,
            parentKnown |-> hasBlock(blockStates, block.header.parentHash),
            time |-> now,
            outcome |-> Returned(validateBlockResult(block, blockStates,
                                                     networkDifficulty, now))]

\* ConsensusManager.validateBlock(block)
ConsensusManagerValidateBlock(block) ==
    /\ valLast' =
           [op |-> "ConsensusManager.validateBlock", block |-> block,
            parentKnown |-> hasBlock(blockStates, block.header.parentHash),
            time |-> now,
            outcome |-> ConsensusValidateBlock(block, blockStates,
                                               networkDifficulty, now)]
    /\ UNCHANGED validationQueue

ValidatorNext ==
    \/ \E t \in TypedBlocks(networkDifficulty, now,
                            {0 - TIMESTAMP_TOLERANCE, TIMESTAMP_TOLERANCE + 1}) :
       \E block \in Shapes(t) \cup Impostors(t, validationQueue) :
          /\ BlockValidatorValidateBlock(block)
          /\ UNCHANGED <<nonceVars, poolVars, errorVars, syncVars, execVars, propVars, storeVars, chainVars, finalityVars>>
    \/ \E block \in TypedBlocks(networkDifficulty, now, TimestampOffsets) :
          /\ ConsensusManagerValidateBlock(block)
          /\ UNCHANGED <<nonceVars, poolVars, errorVars, syncVars, execVars, propVars, storeVars, chainVars, finalityVars>>

----------------------------------------------------------------------------
(***************************************************************************)
(* ChainManager and ForkDetector (src/chain/chain_manager.ts)              *)
(***************************************************************************)

\* ForkDetector.detectFork(block).isFork
detectFork(block, store, tip) ==
    IF ~hasBlock(store, block.header.parentHash) THEN TRUE
    ELSE \E canonicalBlock \in getBlockAtHeight(store, tip, block.header.number) :
            canonicalBlock.hash # block.hash

\* ChainManager.updateChainState(block): the new chain state
updateChainState(state, block) ==
    [lastBlock |-> block, height |-> block.header.number,
     totalDifficulty |-> state.totalDifficulty + block.header.difficulty,
     forks |-> state.forks]

\* ChainManager.resolveFork(forkData): the body is empty
resolveFork(state) == state

\* A difficulty just below the tolerance: negative under the placeholder.
LowDifficulty(network) == network - difficultyTolerance(network) - 1

\* Difficulties at both ends of the tolerance, just above it and just below.
DifficultyInputs(network) ==
    {network - difficultyTolerance(network),
     network + difficultyTolerance(network), BadDifficulty(network),
     LowDifficulty(network)}

\* The sound block that extends the parent by one.
NextBlockOver(parent, network, time) ==
    Block(Header(parent.header.number + 1, parent.hash, time, network,
                 STATE_ROOT, EMPTY_RECEIPT_ROOT), "none", TRUE)

\* Blocks of height 1 over the genesis block that fail one step of the
\* validation: the header, body and state checks, the timestamp window and
\* the structure check.
DefectiveBlocks(network, time) ==
    { b \in TypedBlocks(network, time, {0}) :
        b.header.parentHash = GenesisBlock.hash }
    \cup { b \in TypedBlocks(network, time, {TIMESTAMP_TOLERANCE + 1}) :
             /\ b.header.parentHash = GenesisBlock.hash
             /\ b.header.difficulty = network /\ b.uncles = "none"
             /\ b.rewardPaid /\ b.header.stateRoot = STATE_ROOT
             /\ b.header.receiptsRoot = EMPTY_RECEIPT_ROOT }
    \cup { [b EXCEPT !.has = RequiredFields \ {"body"}] :
             b \in { NextBlockOver(GenesisBlock, network, time) } }

\* The blocks a peer delivers: over a stored or an unknown parent, at any
\* height up to MaxHeight, mined at the time of delivery or a millisecond
\* before, sound apart from difficulty and stated hash.
DeliveredBlocks(store, network, time) ==
    LET sound ==
            { Block(Header(n, p, t, d, STATE_ROOT, EMPTY_RECEIPT_ROOT),
                    "none", TRUE) :
                p \in {b.hash : b \in store} \cup {UnknownHash},
                n \in 1 .. MaxHeight, t \in {time - 1, time},
                d \in DifficultyInputs(network) }
    IN  sound \cup { [b EXCEPT !.hash = BadHash] : b \in sound }
              \cup DefectiveBlocks(network, time)

NoProcess ==
    [event |-> "none", hash |-> GenesisBlock.hash,
     parentHash |-> GenesisBlock.hash, number |-> 0,
     tipBefore |-> GenesisBlock.hash, heightBefore |-> 0,
     totalDifficultyBefore |-> 0, valid |-> FALSE, isFork |-> FALSE]

\* initializeChainState
ChainInit ==
    /\ chainState = [lastBlock |-> GenesisBlock, height |-> 0,
                     totalDifficulty |-> 0, forks |-> << >>]
    /\ chainLast = NoProcess
    /\ processing = << >>

\* ChainManager.processNewBlock(block)
processNewBlock(block) ==
    LET result == validateBlockResult(block, blockStates, networkDifficulty, now)
        updated == updateChainState(chainState, block)
        stored == updateBlockStateMap(blockStates, block)
        isFork == detectFork(block, stored, updated.lastBlock)
        call == [NoProcess EXCEPT
                    !.hash = block.hash,
                    !.parentHash = block.header.parentHash,
                    !.number = block.header.number,
                    !.tipBefore = chainState.lastBlock.hash,
                    !.heightBefore = chainState.height,
                    !.totalDifficultyBefore = chainState.totalDifficulty,
                    !.valid = result.isValid]
    IN  /\ validationQueue' =
               validateBlockQueue(validationQueue, block, blockStates,
                                  networkDifficulty, now)
        /\ valLast' =
               [op |-> "BlockValidator.validateBlock", block |-> block,
                parentKnown |-> hasBlock(blockStates, block.header.parentHash),
                time |-> now, outcome |-> Returned(result)]
        /\ IF ~result.isValid
           THEN /\ chainLast' = [call EXCEPT !.event = "block:invalid"]
                /\ UNCHANGED <<chainState, blockStates>>
           ELSE /\ chainState' = IF isFork THEN resolveFork(updated) ELSE updated
                /\ blockStates' = stored
                /\ chainLast' = [call EXCEPT !.event = "block:processed",
                                             !.isFork = isFork]
        /\ UNCHANGED <<networkDifficulty, processing>>

ChainNext ==
    \E block \in DeliveredBlocks(blockStates, networkDifficulty, now) :
        /\ Cardinality(DOMAIN validationQueue) < MaxProcessed
        /\ chainState.totalDifficulty <= MaxTotalDifficulty
        /\ processNewBlock(block)
        /\ UNCHANGED <<nonceVars, poolVars, errorVars, syncVars, execVars, propVars, finalityVars>>

\* ---- processNewBlock as the scheduler runs it ----
\* A call is suspended first at `await this.blockValidator.validateBlock` and,
\* for an accepted block, at the awaits of updateChainState and
\* handlePotentialFork; other calls run in between.

\* calls of processNewBlock in one run
MaxCalls == 3

\* The blocks peers deliver while calls are in flight: sound blocks over the
\* genesis block, over a stored block or over a block still being processed,
\* and one block over an unknown parent.
ArrivingBlocks(store, calls, network, time) ==
    { NextBlockOver(parent, network, t) :
        parent \in store \cup {calls[i].block : i \in DOMAIN calls},
        t \in {time - 1, time} }
    \cup { Block(Header(1, UnknownHash, time, network, STATE_ROOT,
                        EMPTY_RECEIPT_ROOT), "none", TRUE) }

\* processNewBlock(block) is called: the call reaches its first await.
ProcessCall(block) ==
    /\ Len(processing) < MaxCalls
    /\ \A i \in DOMAIN processing : processing[i].block.hash # block.hash
    /\ processing' = Append(processing,
                            [block |-> block, phase |-> "validating",
                             result |-> Valid])
    /\ UNCHANGED <<storeVars, validatorVars, chainState, chainLast>>

\* blockValidator.validateBlock(block) of call i runs against the block store
\* as it is now and resolves.
ProcessValidate(i) ==
    /\ i \in DOMAIN processing
    /\ processing[i].phase = "validating"
    /\ LET block == processing[i].block
           result == validateBlockResult(block, blockStates, networkDifficulty,
                                         now)
       IN  /\ processing' = [processing EXCEPT ![i].phase = "validated",
                                               ![i].result = result]
           /\ validationQueue' =
                  validateBlockQueue(validationQueue, block, blockStates,
                                     networkDifficulty, now)
           /\ valLast' =
                  [op |-> "BlockValidator.validateBlock", block |-> block,
                   parentKnown |-> hasBlock(blockStates, block.header.parentHash),
                   time |-> now, outcome |-> Returned(result)]
    /\ UNCHANGED <<storeVars, chainState, chainLast>>

\* Call i resumes after validateBlock: block:invalid for a rejected block,
\* updateChainState, handlePotentialFork and block:processed for an accepted
\* one.
ProcessCommit(i) ==
    /\ i \in DOMAIN processing
    /\ processing[i].phase = "validated"
    /\ LET block == processing[i].block
           result == processing[i].result
           updated == updateChainState(chainState, block)
           stored == updateBlockStateMap(blockStates, block)
           isFork == detectFork(block, stored, updated.lastBlock)
           call == [NoProcess EXCEPT
                       !.hash = block.hash,
                       !.parentHash = block.header.parentHash,
                       !.number = block.header.number,
                       !.tipBefore = chainState.lastBlock.hash,
                       !.heightBefore = chainState.height,
                       !.totalDifficultyBefore = chainState.totalDifficulty,
                       !.valid = result.isValid]
       IN  IF ~result.isValid
           THEN /\ chainLast' = [call EXCEPT !.event = "block:invalid"]
                /\ UNCHANGED <<chainState, blockStates>>
           ELSE /\ chainState' = IF isFork THEN resolveFork(updated) ELSE updated
                /\ blockStates' = stored
                /\ chainLast' = [call EXCEPT !.event = "block:processed",
                                             !.isFork = isFork]
    /\ processing' = [processing EXCEPT ![i].phase = "done"]
    /\ UNCHANGED <<networkDifficulty, validatorVars>>

SerialNext ==
    \/ \E block \in ArrivingBlocks(blockStates, processing, networkDifficulty,
                                   now) :
          /\ ProcessCall(block)
          /\ UNCHANGED <<nonceVars, poolVars, errorVars, syncVars, execVars, propVars, finalityVars>>
    \/ \E i \in DOMAIN processing :
          /\ ProcessValidate(i)
          /\ UNCHANGED <<nonceVars, poolVars, errorVars, syncVars, execVars, propVars, finalityVars>>
    \/ \E i \in DOMAIN processing :
          /\ ProcessCommit(i)
          /\ UNCHANGED <<nonceVars, poolVars, errorVars, syncVars, execVars, propVars, finalityVars>>

----------------------------------------------------------------------------
(***************************************************************************)
(* FinalityTracker (src/sync/finality_tracker.ts)                          *)
(***************************************************************************)
FinalityInit ==
    /\ finalityCache = << >>
    /\ updating = {}

\* countConfirmations(block)
countConfirmations(store, block) ==
    getLatestBlock(store).header.number - block.header.number

\* trackBlockFinality(block) up to its await: the record of the block is
\* replaced by a new one and updateFinalityState is started.
trackBlockFinality(block) ==
    /\ finalityCache' =
           (block.hash :> [block |-> block, confirmations |-> 0,
                           status |-> "pending"]) @@ finalityCache
    /\ updating' = updating \cup {block.hash}
    /\ UNCHANGED storeVars

\* updateFinalityState(blockHash), from the resumption of countConfirmations
\* on; an error of getLatestBlock leaves the record as it is.
updateFinalityState(blockHash) ==
    /\ blockHash \in updating
    /\ updating' = updating \ {blockHash}
    /\ IF blockHash \notin DOMAIN finalityCache \/ blockStates = {}
       THEN UNCHANGED finalityCache
       ELSE LET state == finalityCache[blockHash]
                confirmations == countConfirmations(blockStates, state.block)
            IN  finalityCache' =
                    [finalityCache EXCEPT ![blockHash] =
                        [state EXCEPT
                            !.confirmations = confirmations,
                            !.status = IF confirmations >= FinalityThreshold
                                       THEN "finalized" ELSE state.status]]
    /\ UNCHANGED storeVars

\* StateManager.updateBlockState(hash, state), as the propagation layer calls
\* it for a received block: here the next block over the latest one.
updateBlockState(block) ==
    /\ blockStates' = updateBlockStateMap(blockStates, block)
    /\ UNCHANGED <<networkDifficulty, finalityVars>>

FinalityNext ==
    \/ \E block \in blockStates :
          /\ trackBlockFinality(block)
          /\ UNCHANGED <<nonceVars, poolVars, errorVars, syncVars, execVars, propVars, validatorVars, chainVars>>
    \/ \E blockHash \in updating :
          /\ updateFinalityState(blockHash)
          /\ UNCHANGED <<nonceVars, poolVars, errorVars, syncVars, execVars, propVars, validatorVars, chainVars>>
    \/ /\ getLatestBlock(blockStates).header.number < MaxHeight
       /\ updateBlockState(NextBlockOver(getLatestBlock(blockStates),
                                         networkDifficulty, now))
       /\ UNCHANGED <<nonceVars, poolVars, errorVars, syncVars, execVars, propVars, validatorVars, chainVars>>

----------------------------------------------------------------------------
(***************************************************************************)
(* The rule engine: TransactionValidator (src/unnamed/part_010) over the   *)
(* rules of src/verification/validation_rules.ts.  Amounts are counted in  *)
(* Gwei (10^9 wei).                                                        *)
(***************************************************************************)

\* GAS_LIMITS
BASE_TX == 21000
CONTRACT_CREATION == 53000
ZERO_BYTE == 4
NON_ZERO_BYTE == 68
MAX_GAS_LIMIT == 15000000
MIN_GAS_LIMIT == 5000
\* BigInt(10000000000000) wei (10000 Gwei) and BigInt(1000000000) wei (1 Gwei)
MAX_GAS_PRICE == 10000
MIN_GAS_PRICE == 1

\* Bounds of the engine model: the balance of every account and the
\* greatest nonce submitted.
EngineBalance == 20000000
MaxEngineNonce == 3

\* ADDRESS_REGEX.test(address), the token "" standing for a malformed address
isValidAddress(address) == address # ""

\* BalanceValidator.validate
BalanceValidate(tx, balance) ==
    IF ~isValidAddress(tx.from) \/ ~isValidAddress(tx.to)
    THEN Invalid("Invalid address format")
    ELSE IF tx.value < 0 THEN Invalid("Invalid value format")
    ELSE IF balance < tx.value + (tx.gasLimit * tx.gasPrice)
    THEN Invalid("Insufficient balance")
    ELSE Valid

\* GasValidator.isValidGasPrice
isValidGasPrice(gasPrice) == gasPrice >= MIN_GAS_PRICE /\ gasPrice <= MAX_GAS_PRICE

\* estimateGasUsage without the base cost of a transaction
estimateDataOnly(tx) ==
    tx.zeroBytes * ZERO_BYTE + tx.nonZeroBytes * NON_ZERO_BYTE

\* GasValidator.estimateGasUsage
estimateGasUsage(tx) ==
    BASE_TX + (IF tx.to = "" THEN CONTRACT_CREATION ELSE 0)
            + tx.zeroBytes * ZERO_BYTE + tx.nonZeroBytes * NON_ZERO_BYTE

\* GasValidator.validate.  getNetworkState() returns no blockGasLimit, so
\* the comparison with it is false and reading it for the details of the
\* rejection throws a TypeError.
GasValidate(tx) ==
    IF tx.gasPrice < 0 THEN Returned(Invalid("Invalid gas price format"))
    ELSE IF tx.gasLimit < 0 THEN Returned(Invalid("Invalid gas limit format"))
    ELSE IF ~isValidGasPrice(tx.gasPrice) THEN Returned(Invalid("Invalid gas price"))
    ELSE IF tx.gasLimit > MAX_GAS_LIMIT
    THEN Thrown("Cannot read properties of undefined (reading 'toString')")
    ELSE IF tx.gasLimit < MIN_GAS_LIMIT
    THEN Returned(Invalid("Gas limit below minimum"))
    ELSE IF tx.gasLimit < estimateGasUsage(tx)
    THEN Returned(Invalid("Gas limit too low"))
    ELSE Returned(Valid)

\* SignatureValidator.validate.  verifySignature and recoverSigner are
\* placeholders that accept; hashTransaction asks the runtime for the digest
\* 'keccak256', which throws where the runtime does not provide it.
SignatureValidate(tx, digestSupported) ==
    IF ~tx.rsWellFormed THEN Invalid("Invalid signature format")
    ELSE IF tx.v \notin {27, 28} THEN Invalid("Invalid V value")
    ELSE IF ~digestSupported THEN Invalid("Signature validation failed")
    ELSE Valid

\* initializeValidationRules: the rules in their order
ValidationRules == <<"nonce", "balance", "gas", "signature">>

\* What the loop of validateTransaction gets from each rule: the result, a
\* thrown error being turned into a result by the catch clause.
RuleResults(tx, currentNonce, nonceSet, balance, digestSupported) ==
    <<NonceValidate(tx.nonce, currentNonce, nonceSet),
      BalanceValidate(tx, balance),
      IF GasValidate(tx).thrown
      THEN Invalid("Validation error: " \o GasValidate(tx).result.error)
      ELSE GasValidate(tx).result,
      SignatureValidate(tx, digestSupported)>>

\* The index of the last rule that rejects, 0 when every rule accepts: a loop
\* that runs every rule and keeps the latest rejection.
LastRejecting(results) ==
    IF \A i \in 1 .. Len(results) : results[i].isValid THEN 0
    ELSE CHOOSE i \in 1 .. Len(results) :
            /\ ~results[i].isValid
            /\ \A j \in i + 1 .. Len(results) : results[j].isValid

\* The index of the first rule that rejects, 0 when every rule accepts.
FirstRejecting(results) ==
    IF \A i \in 1 .. Len(results) : results[i].isValid THEN 0
    ELSE CHOOSE i \in 1 .. Len(results) :
            /\ ~results[i].isValid
            /\ \A j \in 1 .. i - 1 : results[j].isValid

\* The transactions submitted to the engine: a sound one per nonce, the ones
\* with one defect, and one that two rules reject.
SoundTransaction(nonce) ==
    [from |-> "a1", to |-> "a2", nonce |-> nonce, value |-> 100, gasPrice |-> 1,
     gasLimit |-> BASE_TX, zeroBytes |-> 0, nonZeroBytes |-> 0,
     rsWellFormed |-> TRUE, v |-> 27]

EngineTransactions ==
    UNION { { SoundTransaction(n),
              [SoundTransaction(n) EXCEPT !.value = EngineBalance],
              [SoundTransaction(n) EXCEPT !.to = ""],
              [SoundTransaction(n) EXCEPT !.gasPrice = MIN_GAS_PRICE - 1],
              [SoundTransaction(n) EXCEPT !.gasLimit = MAX_GAS_LIMIT + 1],
              [SoundTransaction(n) EXCEPT !.gasLimit = MIN_GAS_LIMIT - 1],
              [SoundTransaction(n) EXCEPT !.gasLimit = BASE_TX - 1],
              [SoundTransaction(n) EXCEPT !.nonZeroBytes = 1],
              [SoundTransaction(n) EXCEPT !.nonZeroBytes = 1,
                                          !.gasLimit = BASE_TX + NON_ZERO_BYTE],
              [SoundTransaction(n) EXCEPT !.rsWellFormed = FALSE],
              [SoundTransaction(n) EXCEPT !.v = 26],
              [SoundTransaction(n) EXCEPT !.value = EngineBalance, !.v = 26] } :
            n \in -1 .. MaxEngineNonce }

\* TransactionValidator.validateTransaction(tx): the rules run in order up to
\* the first that rejects; the Nonce rule reserves the nonce it accepts.
TransactionValidatorValidateTransaction(tx, digestSupported) ==
    LET results == RuleResults(tx, accountNonce[tx.from], nonceCache[tx.from],
                               EngineBalance, digestSupported)
        first == FirstRejecting(results)
    IN  /\ NonceValidatorValidate(tx.from, tx.nonce)
        /\ engineLast' =
               [called |-> TRUE, tx |-> tx,
                reservedBefore |-> nonceCache[tx.from],
                result |-> IF first = 0 THEN Valid ELSE results[first],
                rejectedBy |-> IF first = 0 THEN "none" ELSE ValidationRules[first],
                evaluated |-> SubSeq(ValidationRules, 1,
                                     IF first = 0 THEN Len(ValidationRules)
                                     ELSE first)]

EngineNext ==
    \/ \E tx \in EngineTransactions : \E digestSupported \in BOOLEAN :
          /\ TransactionValidatorValidateTransaction(tx, digestSupported)
          /\ UNCHANGED <<poolVars, blockSideVars>>
    \/ \E a \in Accounts : \E n \in nonceCache[a] :
          /\ clearNonce(a, n)
          /\ engineLast' = NoEngineCall
          /\ UNCHANGED <<poolVars, blockSideVars>>
    \/ \E a \in Accounts :
          /\ AdvanceAccountNonce(a)
          /\ engineLast' = NoEngineCall
          /\ UNCHANGED <<poolVars, blockSideVars>>

----------------------------------------------------------------------------
(***************************************************************************)
(* The chain manager and the finality tracker over one block store         *)
(***************************************************************************)

\* Bounds: the blocks the store holds and the blocks whose finality is
\* tracked.
MaxStored == 5
MaxTracked == 1

\* The blocks a peer delivers that extend a stored block by one, mined at the
\* time of delivery or a millisecond before.
ExtendingBlocks(store, network, time) ==
    { NextBlockOver(parent, network, t) : parent \in store, t \in {time - 1, time} }

\* Whether the block is the ancestor or has it on its path of parents.
RECURSIVE Descends(_, _, _)
Descends(store, block, ancestor) ==
    IF block.hash = ancestor.hash THEN TRUE
    ELSE IF ~hasBlock(store, block.header.parentHash) THEN FALSE
    ELSE Descends(store, getBlock(store, block.header.parentHash), ancestor)

ConsensusNext ==
    \/ \E block \in ExtendingBlocks(blockStates, networkDifficulty, now) :
          /\ Cardinality(blockStates) < MaxStored
          /\ processNewBlock(block)
          /\ UNCHANGED <<nonceVars, poolVars, errorVars, syncVars, execVars, propVars, finalityVars>>
    \/ \E block \in blockStates :
          /\ \/ block.hash \in DOMAIN finalityCache
             \/ Cardinality(DOMAIN finalityCache) < MaxTracked
          /\ trackBlockFinality(block)
          /\ UNCHANGED <<nonceVars, poolVars, errorVars, syncVars, execVars, propVars, validatorVars, chainVars>>
    \/ \E blockHash \in updating :
          /\ updateFinalityState(blockHash)
          /\ UNCHANGED <<nonceVars, poolVars, errorVars, syncVars, execVars, propVars, validatorVars, chainVars>>

----------------------------------------------------------------------------
(***************************************************************************)
(* StateManager error log (src/unnamed/part_003)                           *)
(***************************************************************************)
\* Keep only last 1000 errors
LOG_CAP == 1000

\* Errors logged in one run of the node, and calls suspended at one time.
MaxErrors == 4

MaxErrorCalls == 3

\* The log holds the errors 1 .. size of earlier sequential calls.
ErrorLogOfSize(size) == [i \in 1 .. size |-> i]

ErrorLogInitOver(sizes) ==
    /\ errorLogFile \in { ErrorLogOfSize(size) : size \in sizes }
    /\ errorCalls = {}
    /\ errorNext = Len(errorLogFile) + 1
    /\ errorCompleted = {}

\* No error has been logged yet.
ErrorLogInit == ErrorLogInitOver({0})

\* while (errorLogs.length > 1000) errorLogs.shift()
RECURSIVE KeepLast(_, _)
KeepLast(logs, cap) ==
    IF Len(logs) > cap THEN KeepLast(Tail(logs), cap) ELSE logs

\* errorLogs.push(errorLog) and the loop that keeps the last 1000
pushAndTrim(logs, errorLog) == KeepLast(Append(logs, errorLog), LOG_CAP)

\* logPropagationError up to the await of readFile in loadErrorLogs.  The
\* caller, handlePropagationError, does not await the call.
logPropagationError ==
    /\ Cardinality(errorCalls) < MaxErrorCalls
    /\ Cardinality(errorCalls) + Cardinality(errorCompleted) < MaxErrors
    /\ errorCalls' = errorCalls \cup {[id |-> errorNext, stage |-> "load",
                                       logs |-> <<>>]}
    /\ errorNext' = errorNext + 1
    /\ UNCHANGED <<errorLogFile, errorCompleted>>

\* readFile settles: the array read is pushed to and trimmed, and writeFile
\* is awaited with it.
ErrorLogLoaded(c) ==
    /\ c \in errorCalls
    /\ c.stage = "load"
    /\ errorCalls' = (errorCalls \ {c}) \cup
           {[c EXCEPT !.stage = "save",
                      !.logs = pushAndTrim(errorLogFile, c.id)]}
    /\ UNCHANGED <<errorLogFile, errorNext, errorCompleted>>

\* writeFile settles: the file holds the array of this call, the metrics are
\* updated in memory and the call returns.
ErrorLogSaved(c) ==
    /\ c \in errorCalls
    /\ c.stage = "save"
    /\ errorLogFile' = c.logs
    /\ errorCalls' = errorCalls \ {c}
    /\ errorCompleted' = errorCompleted \cup {c.id}
    /\ UNCHANGED errorNext

ErrorLogNext ==
    \/ logPropagationError /\ UNCHANGED <<nonceVars, poolVars, syncVars, execVars, propVars, storeVars,
                                           validatorVars, chainVars, finalityVars>>
    \/ \E c \in errorCalls :
          /\ ErrorLogLoaded(c)
          /\ UNCHANGED <<nonceVars, poolVars, syncVars, execVars, propVars, storeVars, validatorVars,
                         chainVars, finalityVars>>
    \/ \E c \in errorCalls :
          /\ ErrorLogSaved(c)
          /\ UNCHANGED <<nonceVars, poolVars, syncVars, execVars, propVars, storeVars, validatorVars,
                         chainVars, finalityVars>>

----------------------------------------------------------------------------
(***************************************************************************)
(* SyncManager (src/sync/sync.ts)                                          *)
(***************************************************************************)
\* this.syncState.currentBlock + 128
BATCH_SPAN == 128

\* ---- TransactionExecutor (src/data/transaction_executor.ts) ----
\* BigInt(21000): base transaction cost
EXEC_BASE_GAS == 21000

\* executionContext.blockGasLimit
ExecBlockGasLimit == 30000

\* The balance each account of the StateDB starts with, and the executions
\* of one run.
ExecBalance == 200000

MaxExecuted == 3

ExecAccounts == {"a1", "a2"}

NoExecution == [called |-> FALSE]

ExecInit ==
    /\ stateDB = [a \in ExecAccounts |-> [balance |-> ExecBalance, nonce |-> 0]]
    /\ execLast = NoExecution

\* Plain value transfers (a recipient, no data) from a1 to a2.
ExecTransactions(db) ==
    { [from |-> "a1", to |-> "a2", nonce |-> n, value |-> v, gasPrice |-> g,
       gasLimit |-> l] :
        n \in {db["a1"].nonce, db["a1"].nonce + 1}, v \in {0, 100, ExecBalance},
        g \in {0, 2},
        l \in {EXEC_BASE_GAS - 1, EXEC_BASE_GAS, EXEC_BASE_GAS + 1000,
               ExecBlockGasLimit + 1} }

\* verifyExecution: the message thrown by verifyBalance, verifyNonce or
\* verifyGasLimit, "" when all three return.
verifyExecution(tx, db) ==
    IF db[tx.from].balance < tx.value + tx.gasLimit * tx.gasPrice
    THEN "Insufficient balance for transaction"
    ELSE IF tx.nonce # db[tx.from].nonce THEN "Invalid nonce"
    ELSE IF tx.gasLimit < EXEC_BASE_GAS
    THEN "Gas limit too low for basic transaction"
    ELSE IF tx.gasLimit > ExecBlockGasLimit
    THEN "Gas limit exceeds block gas limit"
    ELSE ""

\* transferValue: the value leaves the sender and reaches the recipient.
transferValue(tx, db) ==
    LET debited == [db EXCEPT ![tx.from].balance = @ - tx.value]
    IN  [debited EXCEPT ![tx.to].balance = @ + tx.value]

\* refundGas(address, amount)
refundGas(address, amount, db) == [db EXCEPT ![address].balance = @ + amount]

\* updatePostExecutionState: updateSenderState deducts the cost of the gas
\* used and increments the nonce, updateRecipientState writes the recipient
\* back, and the unused gas is refunded.
updatePostExecutionState(tx, gasUsed, db) ==
    LET charged == [db EXCEPT ![tx.from].balance = @ - gasUsed * tx.gasPrice,
                              ![tx.from].nonce = @ + 1]
        gasRefund == tx.gasLimit - gasUsed
    IN  IF gasRefund > 0
        THEN refundGas(tx.from, gasRefund * tx.gasPrice, charged)
        ELSE charged

\* TransactionExecutor.execute(tx) for a plain transfer: gasUsed is the base
\* cost; a throw of verifyExecution is followed by the rollback to the root
\* captured before.
execute(tx) ==
    LET error == verifyExecution(tx, stateDB)
    IN  /\ stateDB[tx.from].nonce < MaxExecuted
        /\ stateDB' = IF error # "" THEN stateDB
                      ELSE updatePostExecutionState(tx, EXEC_BASE_GAS,
                                                    transferValue(tx, stateDB))
        /\ execLast' = [called |-> TRUE, tx |-> tx, before |-> stateDB,
                        gasUsed |-> EXEC_BASE_GAS, error |-> error]

ExecNext ==
    \E tx \in ExecTransactions(stateDB) :
        /\ execute(tx)
        /\ UNCHANGED <<nonceVars, poolVars, storeVars, validatorVars,
                       chainVars, finalityVars, errorVars, syncVars, propVars>>

\* The heights getHighestPeerBlock reports.
PeerHeights == {0, 1, 2, BATCH_SPAN + 1, BATCH_SPAN + 2}

\* No performBlockSync is running.
NoSyncRun == [pc |-> "idle", target |-> 0, start |-> 0, end |-> 0, request |-> 0]

\* initializeSyncState
SyncInit ==
    /\ syncState = [isSyncing |-> FALSE, currentBlock |-> 0]
    /\ syncRun = NoSyncRun
    /\ syncLast = "init"

\* The truthiness of what `await this.consensusManager.validateBlock(block)`
\* settles with: a ValidationResult object, whatever its isValid field holds.
isValidTruthy(result) == TRUE

\* The body of the while loop of performBlockSync from its test on: the next
\* range is requested with a new BlockRequest (told apart from the one it
\* replaces in blockQueue.pending by its parity), or the sync returns.
SyncLoop(current, target, request) ==
    IF current < target
    THEN [pc |-> "fetch", target |-> target, start |-> current + 1,
          end |-> IF current + BATCH_SPAN < target THEN current + BATCH_SPAN
                  ELSE target,
          request |-> 1 - request]
    ELSE NoSyncRun

\* startSync up to the await in performBlockSync; a call made while
\* isSyncing is set returns at once.
startSync ==
    IF syncState.isSyncing
    THEN /\ syncLast' = "startSync:returned at once"
         /\ UNCHANGED <<syncState, syncRun>>
    ELSE /\ syncState' = [syncState EXCEPT !.isSyncing = TRUE]
         /\ syncRun' = [NoSyncRun EXCEPT !.pc = "target"]
         /\ syncLast' = "sync:started"

\* getHighestPeerBlock settles and the loop is entered or skipped.
SyncTarget(target) ==
    /\ syncRun.pc = "target"
    /\ syncRun' = SyncLoop(syncState.currentBlock, target, syncRun.request)
    /\ syncLast' = IF syncRun'.pc = "idle" THEN "performBlockSync:returned"
                   ELSE "requestBlockBatch"
    /\ UNCHANGED syncState

\* The blocks a peer answers a range request with, by their numbers: the
\* range, its first block only, nothing, or a block the node already has.
FetchedNumbers(start, end) ==
    { [n \in 1 .. (end - start + 1) |-> start + n - 1], <<start>>, <<>>,
      <<start - 1>> }

\* processBlockBatch: currentBlock follows each block whose validation
\* result is truthy.
RECURSIVE processBlockBatch(_, _, _)
processBlockBatch(current, numbers, valid) ==
    IF numbers = <<>> THEN current
    ELSE processBlockBatch(IF isValidTruthy(valid) THEN Head(numbers)
                           ELSE current,
                           Tail(numbers), valid)

\* fetchBlockRange settles with blocks: they are processed and the loop goes
\* round.
SyncFetched(numbers, valid) ==
    /\ syncRun.pc = "fetch"
    /\ LET current == processBlockBatch(syncState.currentBlock, numbers, valid)
       IN  /\ syncState' = [syncState EXCEPT !.currentBlock = current]
           /\ syncRun' = SyncLoop(current, syncRun.target, syncRun.request)
    /\ syncLast' = IF syncRun'.pc = "idle" THEN "performBlockSync:returned"
                   ELSE "requestBlockBatch"

\* fetchBlockRange rejects, of itself or at the 30 s timeout: requestBlockBatch
\* rethrows, performBlockSync rejects and startSync catches.
SyncFetchFailed ==
    /\ syncRun.pc = "fetch"
    /\ syncState' = [syncState EXCEPT !.isSyncing = FALSE]
    /\ syncRun' = NoSyncRun
    /\ syncLast' = "sync:error"

\* The continuation of the running sync.
SyncResume ==
    /\ \/ \E target \in PeerHeights : SyncTarget(target)
       \/ \E numbers \in FetchedNumbers(syncRun.start, syncRun.end) :
             \E valid \in BOOLEAN : SyncFetched(numbers, valid)
       \/ SyncFetchFailed
    /\ UNCHANGED <<nonceVars, poolVars, storeVars, validatorVars, chainVars,
                   finalityVars, errorVars, execVars, propVars>>

SyncNext ==
    \/ startSync /\ UNCHANGED <<nonceVars, poolVars, storeVars, validatorVars,
                                 chainVars, finalityVars, errorVars, execVars, propVars>>
    \/ \E target \in PeerHeights :
          /\ SyncTarget(target)
          /\ UNCHANGED <<nonceVars, poolVars, storeVars, validatorVars,
                         chainVars, finalityVars, errorVars, execVars, propVars>>
    \/ \E numbers \in FetchedNumbers(syncRun.start, syncRun.end) :
          \E valid \in BOOLEAN :
             /\ SyncFetched(numbers, valid)
             /\ UNCHANGED <<nonceVars, poolVars, storeVars, validatorVars,
                            chainVars, finalityVars, errorVars, execVars, propVars>>
    \/ SyncFetchFailed /\ UNCHANGED <<nonceVars, poolVars, storeVars,
                                       validatorVars, chainVars, finalityVars,
                                       errorVars, execVars, propVars>>

----------------------------------------------------------------------------
(***************************************************************************)
(* BlockPropagationManager (src/unnamed/part_000)                          *)
(***************************************************************************)
\* The hashes of the blocks that go round and the peers that send them.
PropagatedHashes == {"b1", "b2"}

Peers == {"p1", "p2"}

\* broadcasts in one run
MaxBroadcasts == 4

NoReceipt == [called |-> FALSE]

PropagationInit ==
    /\ propagationCache = << >>
    /\ propAccepted = {}
    /\ propBroadcasts = 0
    /\ propLast = NoReceipt

\* The cache after propagateBlock(block): a new PropagationState with an
\* empty receivedBy is set under the hash, and its status follows the
\* broadcast.
propagateBlockCache(cache, hash, sent) ==
    (hash :> [status |-> IF sent THEN "completed" ELSE "failed",
              receivedBy |-> {}]) @@ cache

\* propagateBlock(block), called by the node for a block of its own
propagateBlock(hash, sent) ==
    /\ propBroadcasts < MaxBroadcasts
    /\ propagationCache' = propagateBlockCache(propagationCache, hash, sent)
    /\ propBroadcasts' = propBroadcasts + 1
    /\ propLast' = NoReceipt
    /\ UNCHANGED propAccepted

\* validatePropagation(block, peerId): the block has a state in the cache,
\* the peer is not in its receivedBy, and what validateBlock settles with is
\* truthy.
validatePropagation(cache, hash, peerId, valid) ==
    /\ hash \in DOMAIN cache
    /\ peerId \notin cache[hash].receivedBy
    /\ isValidTruthy(valid)

\* handleReceivedBlock(block, peerId): an accepted block has the peer added
\* to receivedBy and is propagated again.
handleReceivedBlock(hash, peerId, valid, sent) ==
    LET accepted == validatePropagation(propagationCache, hash, peerId, valid)
        marked == [propagationCache EXCEPT ![hash].receivedBy = @ \cup {peerId}]
    IN  /\ propBroadcasts < MaxBroadcasts
        /\ propLast' = [called |-> TRUE, hash |-> hash, peerId |-> peerId,
                        accepted |-> accepted,
                        acceptedBefore |-> <<hash, peerId>> \in propAccepted]
        /\ IF accepted
           THEN /\ propagationCache' = propagateBlockCache(marked, hash, sent)
                /\ propBroadcasts' = propBroadcasts + 1
                /\ propAccepted' = propAccepted \cup {<<hash, peerId>>}
           ELSE UNCHANGED <<propagationCache, propBroadcasts, propAccepted>>

PropagationNext ==
    \/ \E hash \in PropagatedHashes : \E sent \in BOOLEAN :
          /\ propagateBlock(hash, sent)
          /\ UNCHANGED <<nonceVars, poolVars, storeVars, validatorVars,
                         chainVars, finalityVars, errorVars, syncVars, execVars>>
    \/ \E hash \in PropagatedHashes : \E peerId \in Peers :
          \E valid \in BOOLEAN : \E sent \in BOOLEAN :
             /\ handleReceivedBlock(hash, peerId, valid, sent)
             /\ UNCHANGED <<nonceVars, poolVars, storeVars, validatorVars,
                            chainVars, finalityVars, errorVars, syncVars,
                            execVars>>

----------------------------------------------------------------------------
(***************************************************************************)
(* Specifications                                                          *)
(***************************************************************************)
\* The state after construction of the components.
InitWith(difficulties) ==
    /\ NonceInit
    /\ PoolInit
    /\ StoreInit(difficulties)
    /\ ValidatorInit
    /\ ChainInit
    /\ FinalityInit
    /\ ErrorLogInit
    /\ SyncInit
    /\ ExecInit
    /\ PropagationInit

\* The network difficulty is the placeholder of getNetworkDifficulty.
Init == InitWith({PlaceholderDifficulty})

\* The network difficulty is the placeholder or the live value.
InitLive == InitWith({PlaceholderDifficulty, LiveDifficulty})

SpecNonce == Init /\ [][NonceNext]_vars

SpecPool == Init /\ [][PoolNext]_vars

SpecValidator == InitLive /\ [][ValidatorNext]_vars

SpecChain == InitLive /\ [][ChainNext]_vars
SpecSerial == InitLive /\ [][SerialNext]_vars
SpecNonceAsync == Init /\ [][NonceAsyncNext]_vars
SpecAdmission == Init /\ [][AdmissionNext]_vars

\* The state after construction over a snapshot file left in the data
\* directory.
InitSnapshot ==
    /\ NonceInit
    /\ PoolInitOver(SnapshotFiles)
    /\ StoreInit({PlaceholderDifficulty})
    /\ ValidatorInit
    /\ ChainInit
    /\ FinalityInit
    /\ ErrorLogInit
    /\ SyncInit
    /\ ExecInit
    /\ PropagationInit

SpecRestore == InitSnapshot /\ [][RestoreNext]_vars

\* The state after construction over an error log that is empty, one short
\* of full, or full.
InitErrorLog ==
    /\ NonceInit
    /\ PoolInit
    /\ StoreInit({PlaceholderDifficulty})
    /\ ValidatorInit
    /\ ChainInit
    /\ FinalityInit
    /\ ErrorLogInitOver({0, LOG_CAP - 1, LOG_CAP})
    /\ SyncInit
    /\ ExecInit
    /\ PropagationInit

SpecErrorLog == InitErrorLog /\ [][ErrorLogNext]_vars

SpecSync == Init /\ [][SyncNext]_vars

SpecExecutor == Init /\ [][ExecNext]_vars

SpecPropagation == Init /\ [][PropagationNext]_vars

\* The awaits of a running sync settle: the event loop runs the continuation.
SpecSyncLive == Init /\ [][SyncNext]_vars /\ WF_vars(SyncResume)

SpecFinality == Init /\ [][FinalityNext]_vars

\* A suspended updateFinalityState is resumed: the promise of
\* countConfirmations settles and the event loop runs the continuation.
\* Nothing obliges a caller to track a block or the store to grow.
FinalityResume ==
    \E blockHash \in updating :
        /\ updateFinalityState(blockHash)
        /\ UNCHANGED <<nonceVars, poolVars, errorVars, syncVars, execVars, propVars, validatorVars, chainVars>>

SpecFinalityLive == Init /\ [][FinalityNext]_vars /\ WF_vars(FinalityResume)

SpecConsensus == Init /\ [][ConsensusNext]_vars

SpecEngine == Init /\ [][EngineNext]_vars

----------------------------------------------------------------------------
(***************************************************************************)
(* Properties of the Nonce rule                                            *)
(***************************************************************************)

\* C5: a transaction whose nonce is below the sender's account nonce is
\* rejected by the Nonce rule, whatever the reserved set holds.
C5_ReplayRejected ==
    (nonceLast.called /\ nonceLast.nonce < nonceLast.currentNonce)
        => ~nonceLast.result.isValid

\* A well-formed nonce below the account nonce was submitted while other
\* nonces were reserved, and was rejected as a replay.
C5_Witness ==
    /\ nonceLast.called
    /\ nonceLast.nonce >= 0
    /\ nonceLast.nonce < nonceLast.currentNonce
    /\ nonceLast.reservedCount > 0
    /\ nonceLast.result = Invalid("Nonce too low - transaction replay prevented")

C7_GapRejected ==
    (nonceLast.called
        /\ nonceLast.nonce >= nonceLast.currentNonce + MAX_NONCE_GAP)
        => ~nonceLast.result.isValid

\* The boundary value passed the gap check and was rejected by the sequence
\* check.
C7_Witness ==
    /\ nonceLast.called
    /\ nonceLast.nonce = nonceLast.currentNonce + MAX_NONCE_GAP
    /\ nonceLast.result = Invalid("Invalid nonce sequence")

----------------------------------------------------------------------------
(***************************************************************************)
(* Properties of the transaction pool                                      *)
(***************************************************************************)

\* C4 as stated: whenever a maintenance cycle (updatePool) has completed, the
\* pending tier holds at most maxPendingTransactions entries.
C4_PendingWithinCapacity ==
    poolLast = "updatePool"
        => Len(pendingTransactions) <= MaxPendingTransactions

\* The round trip of a snapshot: the text of serializeTransactions, read back
\* by deserializeTransactions.
RoundTripSame(before, after) ==
    /\ Len(after) = Len(before)
    /\ \A i \in 1 .. Len(before) :
          /\ after[i].transaction.hash = before[i].transaction.hash
          /\ after[i].gasPrice.v = before[i].gasPrice.v

\* C10 as stated: for every pool state, deserializing the result of
\* serializing the pending and queued maps yields maps with the same hashes,
\* the same gas price per entry and the same tier per entry.
C10_SnapshotRoundTrip ==
    LET s == serializeTransactions(pendingTransactions, queuedTransactions, now)
    IN  /\ s.ok
        /\ LET d == deserializeTransactions(s.data)
           IN  /\ RoundTripSame(pendingTransactions, d.pending)
               /\ RoundTripSame(queuedTransactions, d.queued)

----------------------------------------------------------------------------
(***************************************************************************)
(* Properties of block validation                                          *)
(***************************************************************************)

\* The last call was BlockValidator.validateBlock on a block that has a
\* header and whose recomputed header hash differs from its stated hash.
HashMismatchValidated ==
    /\ valLast.op = "BlockValidator.validateBlock"
    /\ "header" \in valLast.block.has
    /\ calculateBlockHash(valLast.block) # valLast.block.hash

C9_TimestampReason ==
    (/\ valLast.op = "ConsensusManager.validateBlock"
     /\ ~isValidTimestamp(valLast.block.header.timestamp, valLast.time))
        => valLast.outcome = Returned(Invalid("Invalid block timestamp"))

----------------------------------------------------------------------------
(***************************************************************************)
(* Properties of the chain state and of finality                           *)
(***************************************************************************)

C3_FinalizedStaysFinalized ==
    [][\A h \in DOMAIN finalityCache :
          finalityCache[h].status = "finalized"
              => finalityCache'[h].status = "finalized"]_vars

----------------------------------------------------------------------------
(***************************************************************************)
(* Properties of admission to the transaction pool                         *)
(***************************************************************************)

\* The pool holds an entry of the same sender with the same nonce.
NonceHeld(tx) ==
    \/ \E i \in 1 .. Len(pendingTransactions) :
          /\ pendingTransactions[i].transaction.from = tx.from
          /\ pendingTransactions[i].nonce = tx.nonce
    \/ \E i \in 1 .. Len(queuedTransactions) :
          /\ queuedTransactions[i].transaction.from = tx.from
          /\ queuedTransactions[i].nonce = tx.nonce

\* C11 as stated: when an account submits a transaction whose nonce is that
\* of an entry of the same account already accepted into the pool, the
\* submission is rejected and does not go on to enter the pool.
C11_DuplicateNonceRejected ==
    [][\A tx \in Transactions :
          (NonceHeld(tx) /\ AddTransactionCheck(tx))
              => poolLast' = "addTransaction:rejected"]_vars

----------------------------------------------------------------------------
(***************************************************************************)
(* Properties of fork choice                                               *)
(***************************************************************************)

\* The block is valid, has not been seen before and competes with the
\* canonical tip: same parent, same height, another hash.
CompetesWithTip(block) ==
    /\ validateBlockResult(block, blockStates, networkDifficulty, now).isValid
    /\ ~hasBlock(blockStates, block.hash)
    /\ block.header.parentHash = chainState.lastBlock.header.parentHash
    /\ block.header.number = chainState.lastBlock.header.number

FullAtCheck(c) == ~c.toPending /\ ~(c.entry.gasPrice.v < MinGasPrice)

\* C14 as stated: a valid transaction submitted while the pending tier is at
\* capacity ends in the pending tier (the retry after one maintenance cycle)
\* or the submission fails as PoolFull and the transaction is stored in
\* neither tier.
C14_PoolFullWhenAtCapacity ==
    [][\A c \in inFlight :
          (AddTransactionInsert(c) /\ FullAtCheck(c))
              => \/ MapHas(pendingTransactions', c.entry.transaction.hash)
                 \/ /\ poolLast' = "addTransaction:PoolFull"
                    /\ ~MapHas(pendingTransactions', c.entry.transaction.hash)
                    /\ ~MapHas(queuedTransactions', c.entry.transaction.hash)]_vars

\* canAddToPending as evaluated on the pool at the time of placement.
FitsPending(entry) == canAddToPending(entry, pendingTransactions)

\* C15 as stated: a validated transaction is placed in exactly one tier: it
\* is in pending after its placement exactly when, at placement time, the
\* pending tier is below capacity and its gas price reaches minGasPrice, and
\* in queued exactly when not.
C15_PlacedInExactlyOneTier ==
    [][\A c \in inFlight :
          AddTransactionInsert(c)
              => /\ MapHas(pendingTransactions', c.entry.transaction.hash)
                        <=> FitsPending(c.entry)
                 /\ MapHas(queuedTransactions', c.entry.transaction.hash)
                        <=> ~FitsPending(c.entry)]_vars

----------------------------------------------------------------------------
(***************************************************************************)
(* Properties of the rule engine                                           *)
(***************************************************************************)

\* C16 as stated: when the rule engine rejects a transaction at any rule,
\* the pending and queued tiers and the per-account sets of reserved nonces
\* are exactly as they were before the submission.
C16_RejectionLeavesStateUnchanged ==
    [][(/\ engineLast'.called
        /\ \E digestSupported \in BOOLEAN :
              TransactionValidatorValidateTransaction(engineLast'.tx,
                                                      digestSupported)
        /\ ~engineLast'.result.isValid)
           => /\ nonceCache' = nonceCache
              /\ pendingTransactions' = pendingTransactions
              /\ queuedTransactions' = queuedTransactions]_vars

----------------------------------------------------------------------------
(***************************************************************************)
(* Properties of processNewBlock                                           *)
(***************************************************************************)

----------------------------------------------------------------------------
(***************************************************************************)
(* Properties of the outcome of a validation                               *)
(***************************************************************************)

\* C18 as stated: every call of ConsensusManager.validateBlock and of
\* BlockValidator.validateBlock, also for a block whose parent is unknown,
\* completes with a result value; none ends by throwing.
C18_NoValidationThrows ==
    valLast.op # "none" => ~valLast.outcome.thrown

----------------------------------------------------------------------------
(***************************************************************************)
(* Properties of the shutdown of the pool                                  *)
(***************************************************************************)

\* The snapshot file holds exactly the entries of the two tiers.
SnapshotHolds(file, pending, queued) ==
    /\ file.exists
    /\ [i \in 1 .. Len(file.pending) |-> file.pending[i].transaction.hash]
           = [i \in 1 .. Len(pending) |-> pending[i].transaction.hash]
    /\ [i \in 1 .. Len(file.queued) |-> file.queued[i].transaction.hash]
           = [i \in 1 .. Len(queued) |-> queued[i].transaction.hash]

\* C19 as stated: every cleanup of the pool, whatever time has passed since
\* the previous snapshot, leaves in storage a snapshot that holds the pending
\* and queued entries the pool had when cleanup began, and then clears the
\* tiers.
C19_CleanupWritesFinalSnapshot ==
    [][cleanup => /\ SnapshotHolds(storage', pendingTransactions,
                                   queuedTransactions)
                  /\ poolLast' = "cleanup:persisted"]_vars

----------------------------------------------------------------------------
(***************************************************************************)
(* Properties of concurrent processNewBlock calls                          *)
(***************************************************************************)

\* The chain state after processNewBlock has run to completion on each of
\* the blocks in turn.
RECURSIVE SequentialChain(_, _, _)
SequentialChain(blocks, chain, store) ==
    IF blocks = << >> THEN chain
    ELSE LET block == Head(blocks)
             isValid == validateBlockResult(block, store, networkDifficulty,
                                            now).isValid
         IN  SequentialChain(Tail(blocks),
                             IF isValid THEN updateChainState(chain, block)
                             ELSE chain,
                             IF isValid THEN updateBlockStateMap(store, block)
                             ELSE store)

\* All calls of processNewBlock made so far have returned.
AllCallsReturned == \A i \in DOMAIN processing : processing[i].phase = "done"

----------------------------------------------------------------------------
(***************************************************************************)
(* Properties of concurrent validate calls                                 *)
(***************************************************************************)

\* C21 as stated: of two validate calls for the same account and the same
\* nonce that are suspended together at the account-state read, at most one
\* is accepted by the Nonce rule; a call is never accepted for a nonce the
\* rule has accepted for the account since the call read the account state.
C21_AtMostOneConcurrentAccepted ==
    [][\A c \in nonceReads :
          (NonceResume(c) /\ nonceLast'.result.isValid)
              => c.nonce \notin c.acceptedSince]_vars

----------------------------------------------------------------------------
(***************************************************************************)
(* Properties of the admission of a single submission                      *)
(***************************************************************************)

\* The last addTransaction call submitted {nonce 0, value 100, gasLimit 21000,
\* gasPrice 1e9} to an empty pool for an account with nonce 0 and balance
\* 1000.
AdmissionScenario ==
    /\ admissionLast.called
    /\ admissionLast.tx.nonce = 0 /\ admissionLast.tx.value = 100
    /\ admissionLast.tx.gasLimit = 21000 /\ admissionLast.tx.gasPrice = GWEI
    /\ admissionLast.accountNonce = 0 /\ admissionLast.balance = 1000
    /\ admissionLast.pendingBefore = {} /\ admissionLast.queuedBefore = {}

\* C22 as stated: the transaction {nonce 0, value 100, gasLimit 21000,
\* gasPrice 1e9} submitted to an empty pool by an account with nonce 0 and
\* balance 1000 is admitted to the pending tier.
C22_ScenarioAdmittedToPending ==
    AdmissionScenario
        => /\ admissionLast.success
           /\ admissionLast.tier = "pending"
           /\ admissionLast.tx.hash \in MapKeys(pendingTransactions)

\* C22 amended: that transaction is rejected by addTransaction, because the
\* balance 1000 is below value + gasLimit * gasPrice, and it is placed in
\* neither tier.
C22_ScenarioRejectedForBalance ==
    AdmissionScenario
        => /\ ~admissionLast.success
           /\ admissionLast.tier = "none"
           /\ pendingTransactions = << >>
           /\ queuedTransactions = << >>

\* The submission of the scenario was made and was rejected.
C22_Witness ==
    /\ AdmissionScenario
    /\ ~admissionLast.success
    /\ poolLast = "addTransaction:rejected"

----------------------------------------------------------------------------
(***************************************************************************)
(* Properties of the progress of finality                                  *)
(***************************************************************************)

\* A block of number n has a finality record and the latest stored block is
\* at least FinalityThreshold above it.
TrackedAndDeep(n) ==
    /\ \E h \in DOMAIN finalityCache : finalityCache[h].block.header.number = n
    /\ getLatestBlock(blockStates).header.number - n >= FinalityThreshold

\* The finality record of the block of number n has status 'finalized'.
FinalizedAt(n) ==
    \E h \in DOMAIN finalityCache :
        /\ finalityCache[h].block.header.number = n
        /\ finalityCache[h].status = "finalized"

\* C23 as stated: once a block is tracked and the height of the store has
\* reached block.height + finalityThreshold, its finality record eventually
\* has status 'finalized', whether or not the block is tracked again.
C23_TrackedEventuallyFinalized ==
    \A n \in 0 .. MaxHeight : TrackedAndDeep(n) ~> FinalizedAt(n)

----------------------------------------------------------------------------
(***************************************************************************)
(* Properties of the reserved nonces of an account                         *)
(***************************************************************************)

\* The set holds every number between two of its elements.
IsRun(nonceSet) ==
    \A n \in nonceSet : \A m \in nonceSet : \A k \in n .. m : k \in nonceSet

\* C24 as stated: after any sequence of accepted submissions, clearNonce
\* calls and advances of the account nonce, the reserved nonces of each
\* account form a run without gaps, and an accepted nonce has every nonce
\* from the account nonce up to it reserved.
C24_ReservedNoncesContiguous ==
    /\ \A a \in Accounts : IsRun(nonceCache[a])
    /\ (nonceLast.called /\ nonceLast.result.isValid)
           => \A k \in nonceLast.currentNonce .. nonceLast.nonce :
                  k \in nonceCache[nonceLast.from]

\* C25: in every reachable state the reserved set of each account has at most
\* MAX_PENDING_NONCES elements, and a submission made while the set holds
\* MAX_PENDING_NONCES elements is rejected.
C25_ReservedAtMostLimit ==
    /\ \A a \in Accounts : Cardinality(nonceCache[a]) <= MAX_PENDING_NONCES
    /\ (nonceLast.called /\ nonceLast.reservedCount >= MAX_PENDING_NONCES)
           => ~nonceLast.result.isValid

\* Ten nonces are reserved and the submission of the next nonce in sequence
\* was rejected for the limit.
C25_Witness ==
    /\ nonceLast.called
    /\ nonceLast.reservedCount = MAX_PENDING_NONCES
    /\ nonceLast.nonce = nonceLast.currentNonce + nonceLast.reservedCount
    /\ nonceLast.result = Invalid("Too many pending transactions")
    /\ Cardinality(nonceCache[nonceLast.from]) = MAX_PENDING_NONCES

----------------------------------------------------------------------------
(***************************************************************************)
(* Properties of the order of the rules                                    *)
(***************************************************************************)

\* What the gas rule hands to the loop of validateTransaction.
GasOutcome(tx) ==
    IF GasValidate(tx).thrown
    THEN Invalid("Validation error: " \o GasValidate(tx).result.error)
    ELSE GasValidate(tx).result

\* C26: validateTransaction runs the rules in the order Nonce, Balance, Gas,
\* Signature and stops at the first that rejects: the result returned is the
\* result of that rule, and the rules after it are not evaluated.
C26_FirstRejectionReturned ==
    engineLast.called =>
        LET tx == engineLast.tx
            nonceResult == NonceValidate(tx.nonce, accountNonce[tx.from],
                                         engineLast.reservedBefore)
            balanceResult == BalanceValidate(tx, EngineBalance)
        IN  IF ~nonceResult.isValid
            THEN /\ engineLast.result = nonceResult
                 /\ engineLast.evaluated = <<"nonce">>
            ELSE IF ~balanceResult.isValid
            THEN /\ engineLast.result = balanceResult
                 /\ engineLast.evaluated = <<"nonce", "balance">>
            ELSE IF ~GasOutcome(tx).isValid
            THEN /\ engineLast.result = GasOutcome(tx)
                 /\ engineLast.evaluated = <<"nonce", "balance", "gas">>
            ELSE /\ engineLast.result \in
                        {SignatureValidate(tx, d) : d \in BOOLEAN}
                 /\ engineLast.evaluated =
                        <<"nonce", "balance", "gas", "signature">>

\* A transaction that the Balance rule and the Signature rule both reject was
\* submitted with an acceptable nonce: the balance reason was returned and
\* the gas and signature rules were not evaluated.
C26_Witness ==
    /\ engineLast.called
    /\ NonceValidate(engineLast.tx.nonce, accountNonce[engineLast.tx.from],
                     engineLast.reservedBefore).isValid
    /\ ~BalanceValidate(engineLast.tx, EngineBalance).isValid
    /\ \A d \in BOOLEAN : ~SignatureValidate(engineLast.tx, d).isValid
    /\ engineLast.rejectedBy = "balance"
    /\ engineLast.evaluated = <<"nonce", "balance">>

----------------------------------------------------------------------------
(***************************************************************************)
(* Properties of the maintenance cycle                                     *)
(***************************************************************************)

\* The entries of both tiers, as a set.
TierEntries(pending, queued) ==
    { pending[i] : i \in 1 .. Len(pending) } \cup
    { queued[i] : i \in 1 .. Len(queued) }

\* C27: when a maintenance cycle completes, neither tier holds an entry
\* whose age at the time of the cycle exceeds transactionTimeout, every hash
\* that left the pool in the cycle belonged to an entry older than the
\* timeout and had transaction:expired emitted for it, and every entry
\* within the timeout is still in the pool.
C27_CycleEvictsExactlyExpired ==
    [][(poolLast' = "updatePool" /\ updatePool) =>
          LET before == TierEntries(pendingTransactions, queuedTransactions)
              after == TierEntries(pendingTransactions', queuedTransactions')
              hashesAfter == { e.transaction.hash : e \in after }
          IN  /\ \A e \in after : ~(now - e.addedAt > TransactionTimeout)
              /\ \A e \in before :
                    e.transaction.hash \notin hashesAfter
                        => /\ now - e.addedAt > TransactionTimeout
                           /\ e.transaction.hash \in
                                 expiredEmitted(pendingTransactions, now) \cup
                                 expiredEmitted(queuedTransactions, now)
              /\ \A e \in before :
                    ~(now - e.addedAt > TransactionTimeout)
                        => e.transaction.hash \in hashesAfter]_vars

\* A cycle has just run after which the transaction admitted last, older than
\* the timeout by then, is in neither tier.
C27_Witness ==
    /\ poolLast = "updatePool"
    /\ admissionLast.called
    /\ admissionLast.success
    /\ admissionLast.tx.hash \notin
           MapKeys(pendingTransactions) \cup MapKeys(queuedTransactions)

\* canAddToPending's gas price threshold passes for the entry.
Eligible(entry) == ~(entry.gasPrice.v < MinGasPrice)

\* C28: in one maintenance cycle no queued entry that is eligible for pending
\* stays in queued while an entry with a strictly lower gas price is
\* promoted, and after the cycle pending is at capacity or queued holds no
\* eligible entry.
C28_PromotionByDescendingGasPrice ==
    [][(poolLast' = "updatePool" /\ updatePool) =>
          LET left == { queuedTransactions'[i] :
                          i \in 1 .. Len(queuedTransactions') }
              promoted ==
                  { queuedTransactions[i] :
                      i \in { j \in 1 .. Len(queuedTransactions) :
                                /\ ~(now - queuedTransactions[j].addedAt
                                         > TransactionTimeout)
                                /\ queuedTransactions[j].transaction.hash
                                       \notin MapKeys(queuedTransactions')
                                /\ queuedTransactions[j].transaction.hash
                                       \in MapKeys(pendingTransactions') } }
          IN  /\ \A e \in left : \A p \in promoted :
                    Eligible(e) => ~(p.gasPrice.v < e.gasPrice.v)
              /\ \/ Len(pendingTransactions') >= MaxPendingTransactions
                 \/ \A e \in left : ~Eligible(e)]_vars

\* A cycle has just run: the transaction that was admitted last, to the
\* queued tier, is now in pending, and an eligible entry with a lower gas
\* price is still queued.
C28_Witness ==
    /\ poolLast = "updatePool"
    /\ admissionLast.called
    /\ admissionLast.tier = "queued"
    /\ admissionLast.tx.hash \in MapKeys(pendingTransactions)
    /\ admissionLast.tx.hash \notin MapKeys(queuedTransactions)
    /\ \E i \in 1 .. Len(queuedTransactions) :
          /\ Eligible(queuedTransactions[i])
          /\ queuedTransactions[i].gasPrice.v < admissionLast.tx.gasPrice

----------------------------------------------------------------------------
(***************************************************************************)
(* Properties of the restore                                               *)
(***************************************************************************)

\* The three checks of admission on a snapshotted transaction, against the
\* account state of the given nonce.
PassesAdmission(tx, accNonce) ==
    /\ validateBasicFields(tx)
    /\ validateNonce(tx, accNonce)
    /\ validateBalance(tx, AccountBalance)

\* The transactions of a list of snapshot entries.
SnapshotTransactions(entries) ==
    { entries[i].transaction : i \in 1 .. Len(entries) }

\* C29: when the restore of a restarted node completes, each tier holds
\* exactly the entries of its snapshot list that pass admission validation
\* against the account state of that moment; an entry that fails is in
\* neither tier.
C29_RestoreRevalidatesEntries ==
    [][(~loaded /\ loaded')
         => /\ \A tx \in SnapshotTransactions(storage.pending) :
                 MapHas(pendingTransactions', tx.hash)
                     <=> PassesAdmission(tx, accountNonce[tx.from])
            /\ \A tx \in SnapshotTransactions(storage.queued) :
                 MapHas(queuedTransactions', tx.hash)
                     <=> PassesAdmission(tx, accountNonce[tx.from])
            /\ MapKeys(pendingTransactions') \cup MapKeys(queuedTransactions')
                 \subseteq { tx.hash : tx \in
                               SnapshotTransactions(storage.pending) \cup
                               SnapshotTransactions(storage.queued) }]_vars

\* The restore just ran over a snapshot whose pending list holds one entry
\* with a nonce below the account nonce and one entry that passes: the
\* first is in neither tier and the second is pending.
C29_Witness ==
    /\ poolLast = "load"
    /\ loaded
    /\ \E tx \in SnapshotTransactions(storage.pending) :
          /\ tx.nonce < accountNonce[tx.from]
          /\ ~MapHas(pendingTransactions, tx.hash)
          /\ ~MapHas(queuedTransactions, tx.hash)
    /\ \E tx \in SnapshotTransactions(storage.pending) :
          /\ PassesAdmission(tx, accountNonce[tx.from])
          /\ MapHas(pendingTransactions, tx.hash)

----------------------------------------------------------------------------
(***************************************************************************)
(* Properties of the error log                                             *)
(***************************************************************************)

\* The errors of the file, as a set.
ErrorLogEntries == { errorLogFile[i] : i \in 1 .. Len(errorLogFile) }

\* C30: once a logPropagationError call has returned, the error log file
\* holds at most 1000 entries, in the order in which they were logged, and
\* among them is every error of a returned call that is one of the 1000
\* logged most recently.
C30_ErrorLogHoldsMostRecent ==
    errorCompleted # {} =>
        /\ Len(errorLogFile) <= LOG_CAP
        /\ \A i \in 1 .. Len(errorLogFile) - 1 :
              errorLogFile[i] < errorLogFile[i + 1]
        /\ \A id \in errorCompleted :
              id >= errorNext - LOG_CAP => id \in ErrorLogEntries

----------------------------------------------------------------------------
(***************************************************************************)
(* Properties of the cumulative weight and of the block numbers            *)
(***************************************************************************)

\* C31: chainState.totalDifficulty never decreases: no step lowers it, and
\* after a commit it is at least the weight before that commit.
C31_TotalDifficultyNeverDecreases ==
    [][/\ chainState'.totalDifficulty >= chainState.totalDifficulty
       /\ chainLast'.event = "block:processed"
            => chainState'.totalDifficulty >= chainLast'.totalDifficultyBefore]_vars

\* A block of positive difficulty was committed over a chain that already
\* carried weight, and a block of a difficulty below the tolerance is among
\* the blocks delivered in this state.
C31_Witness ==
    /\ chainLast.event = "block:processed"
    /\ chainLast.totalDifficultyBefore > 0
    /\ chainState.totalDifficulty > chainLast.totalDifficultyBefore
    /\ \E b \in DeliveredBlocks(blockStates, networkDifficulty, now) :
          b.header.difficulty = LowDifficulty(networkDifficulty)

----------------------------------------------------------------------------
(***************************************************************************)
(* Properties of the block sync                                            *)
(***************************************************************************)

\* C33: block sync terminates: a performBlockSync that has requested a range
\* eventually returns or fails, whatever the peers answer; it does not
\* request the same range forever.
C33_SyncTerminates ==
    (syncRun.pc = "fetch") ~> (syncRun.pc = "idle")

\* C40: whenever no sync is running, syncState.isSyncing is false, so that
\* a startSync call made then starts a new sync: a call returns at once
\* only while a sync is running.
C40_IdleMeansNotSyncing ==
    /\ syncRun.pc = "idle" => ~syncState.isSyncing
    /\ syncLast = "startSync:returned at once" => syncRun.pc # "idle"

----------------------------------------------------------------------------
(***************************************************************************)
(* Properties of the gas rule                                              *)
(***************************************************************************)

\* The Gas rule was evaluated on the last submission and accepted it.
GasRuleAccepted ==
    /\ engineLast.called
    /\ \E i \in DOMAIN engineLast.evaluated : engineLast.evaluated[i] = "gas"
    /\ engineLast.rejectedBy # "gas"

\* C34: a transaction the Gas rule accepted has a gas limit of at least
\* 21000, the base cost, whatever its data and although MIN_GAS_LIMIT is
\* 5000.
C34_AcceptedGasLimitAtLeastBase ==
    GasRuleAccepted => engineLast.tx.gasLimit >= 21000

\* The Gas rule accepted a transaction without data whose gas limit is
\* exactly the base cost; one gas unit less lies above MIN_GAS_LIMIT.
C34_Witness ==
    /\ GasRuleAccepted
    /\ engineLast.tx.gasLimit = BASE_TX
    /\ engineLast.tx.zeroBytes + engineLast.tx.nonZeroBytes = 0
    /\ BASE_TX - 1 >= MIN_GAS_LIMIT

----------------------------------------------------------------------------
(***************************************************************************)
(* Properties of the two tiers                                             *)
(***************************************************************************)

\* C35: no transaction hash is in the pending tier and in the queued tier
\* at the same time.
C35_TiersDisjoint ==
    MapKeys(pendingTransactions) \cap MapKeys(queuedTransactions) = {}

\* C36: with addTransaction calls in flight together, the pending tier never
\* holds more than maxPendingTransactions entries.
C36_PendingNeverAboveCapacity ==
    Len(pendingTransactions) <= MaxPendingTransactions

----------------------------------------------------------------------------
(***************************************************************************)
(* Properties of the validation tasks                                      *)
(***************************************************************************)

----------------------------------------------------------------------------
(***************************************************************************)
(* Properties of the execution of a transfer                               *)
(***************************************************************************)

\* C38: after execute has succeeded for a plain value transfer, the balance
\* of the sender has decreased by exactly value + gasUsed * gasPrice and its
\* nonce has increased by exactly 1.
C38_SenderChargedExactly ==
    (execLast.called /\ execLast.error = "") =>
        LET tx == execLast.tx
        IN  /\ stateDB[tx.from].balance =
                   execLast.before[tx.from].balance
                       - tx.value - execLast.gasUsed * tx.gasPrice
            /\ stateDB[tx.from].nonce = execLast.before[tx.from].nonce + 1

----------------------------------------------------------------------------
(***************************************************************************)
(* Properties of the propagation                                           *)
(***************************************************************************)

\* C39: a block is re-propagated at most once per sending peer: a block that
\* handleReceivedBlock has accepted from a peer is not accepted, and so not
\* broadcast, again when it is received from the same peer.
C39_AcceptedOncePerPeer ==
    (propLast.called /\ propLast.accepted) => ~propLast.acceptedBefore

====
